---- MODULE Spec2Model ----
(***************************************************************************)
(* Escrow ledger and deal lifecycle of SecureDealzBot (src/bot.py).        *)
(*                                                                         *)
(* The bot runs in one process.  The Flask webhook (src/main.py:84-105)    *)
(* hands every Telegram update to Application.process_update on one        *)
(* asyncio event loop (src/bot.py:4985-4995), so several updates are in    *)
(* flight at once and their handlers interleave at suspension points       *)
(* (network awaits) only.  `inflight' holds the updates that the webhook   *)
(* has scheduled and whose handler has not yet run its database section.   *)
(* A handler's database section (from its first query to its commit) has   *)
(* no network await on its success path, so it is one step of the model.   *)
(*                                                                         *)
(* Money.  The code keeps money in binary floating point dollars.  The     *)
(* model keeps exact amounts in units of 1/20 cent, so that 5% of every    *)
(* whole-cent amount and half of every whole-cent amount are whole         *)
(* numbers of units.  Rounding error of IEEE doubles and the non-finite    *)
(* values that float() accepts ("nan", "inf") are outside the model,       *)
(* except in SpecCreate, where the text of a deal is read as float() reads *)
(* it.                                                                     *)
(***************************************************************************)
EXTENDS Integers, Sequences, FiniteSets, Bags, TLC

(* ----------------------------- scale -------------------------------- *)
\* The percentage fee of calculate_fee (amount * 0.05).
FeePercent == 5
\* One cent is 100 / FeePercent units: the smallest unit in which FeePercent
\* per cent of a whole-cent amount is a whole number.
Cent == 100 \div FeePercent
Dollar == 100 * Cent

(* ----------------------------- bounds ------------------------------- *)
MaxDeals == 2
MaxWithdrawals == 1
MaxInflight == 2
\* Deals in the runs that sweep the fee over a range of amounts, and the
\* number of cents the range extends to either side of $100.
MaxFeeDeals == 1
FeeRange == 100

\* Deposits of the largest amount that fit in a balance in the runs where a
\* commit can fail: a credit without its row can be repeated without end.
\* Deals in those runs and in the runs with row locks.
MaxCredits == 1
MaxFaultDeals == 1

\* Updates in flight in the runs where every user presses every button.
MaxPressed == 1

(* --------------------------- input sets ----------------------------- *)
\* Rows of the users table.  User 1 is the first user the bot ever saw and
\* therefore the admin (src/bot.py:106-108).
Users == {1, 2}
Admin == 1
\* The users who open deals, claim deposits and ask for withdrawals in the
\* runs that are enumerated; every user can be the seller of a deal.
Customers == {2}

\* The users table once the users of the runs have started the bot, user 1
\* first: get_or_create_user made the first row the admin.
RegisteredUsers == [u \in Users |-> [telegram_id |-> u, is_admin |-> u = Admin]]

\* Amounts typed into "Title | Amount | Description".
DealAmounts == {50 * Dollar, 100 * Dollar}
\* ... including one amount above the $50,000 limit.
DealTexts == DealAmounts \cup {60000 * Dollar}
\* Amounts carried by the admin_approve_deposit_ / admin_reject_deposit_ buttons.
DepositAmounts == {60 * Dollar, 105 * Dollar}
\* Crypto kinds carried by the deposit buttons.
Cryptos == {"usdt", "btc"}
\* Numbers typed at the withdrawal amount prompt ("all" is a text of its own).
WithdrawNumbers == {5 * Dollar, 20 * Dollar}
\* Lengths of the texts typed at the wallet address prompt.
AddressLengths == {12, 34}

(* --------------------------- constants ------------------------------ *)
FlatFee == 5 * Dollar
FeeThreshold == 100 * Dollar
MinWithdrawal == 10 * Dollar
MinAddressLen == 20
MaxAddressLen == 100
MinDealAmount == 1 * Dollar
MaxDealAmount == 50000 * Dollar

NoState == [action |-> "none", amount |-> 0]

VARIABLES
    balance,        \* User.balance, by users.id
    escrowed,       \* User.escrowed_amount, by users.id
    deals,          \* the deals table, by primary key 1..Len(deals)
    withdrawals,    \* the withdrawal_requests table, by position
    transactions,   \* the transactions table, a bag of rows
    user_states,    \* SecureDealzBot.user_states, by telegram user
    inflight,       \* updates scheduled on the event loop, not yet handled
    users           \* the users table, by primary key 1..Len(users)

vars == <<balance, escrowed, deals, withdrawals, transactions, user_states, inflight,
          users>>
ledger == <<balance, escrowed, deals, withdrawals, transactions>>


(* ------------------------------ helpers ----------------------------- *)
\* Faulty variant of calculate_fee: the percentage at every amount.
calculate_fee_percent_only(amount) == (amount * FeePercent) \div 100

\* calculate_fee(amount): $5 flat under $100, else 5%.
calculate_fee(amount) ==
    IF amount < FeeThreshold THEN FlatFee ELSE (amount * FeePercent) \div 100

\* process_deal_creation: total_required = amount + service_fee, the total
\* the buyer is shown when the deal is created.
displayed_total(amount) == amount + calculate_fee(amount)

DealIds == 1 .. MaxDeals
WithdrawalIds == 1 .. MaxWithdrawals

\* Deal.query.filter_by(deal_id=...).first() / db.session.get(Deal, pk):
\* the row exists once it has been inserted.
DealExists(deal_id) == deal_id \in 1 .. Len(deals)
WithdrawalExists(wid) == wid \in 1 .. Len(withdrawals)

\* One row of the transactions table.
Txn(user_id, deal_id, amount, transaction_type, description) ==
    [user_id |-> user_id, deal_id |-> deal_id, amount |-> amount,
     transaction_type |-> transaction_type, status |-> "completed",
     description |-> description]

\* db.session.add(transaction)
AddTxn(t) == transactions (+) SetToBag({t})

SetStatus(deal_id, status) == [deals EXCEPT ![deal_id].status = status]

(* ----------------------- deal lifecycle handlers -------------------- *)
\* A handler that returns early (after query.answer or a reply) leaves
\* every table and the conversation states as they are.
no_effect ==
    UNCHANGED <<balance, escrowed, deals, withdrawals, transactions, user_states>>

\* Faulty variant of accept_deal_ok: the buyer's balance is not compared
\* with amount + fee.
accept_deal_ok_no_balance_check(user_id, deal_id) ==
    /\ DealExists(deal_id)
    /\ deals[deal_id].seller_id = user_id
    /\ deals[deal_id].status = "pending"

\* accept_deal, the checks before the funding branch: the deal exists, the
\* caller is its seller, it is pending, and the buyer can pay amount + fee.
accept_deal_ok(user_id, deal_id) ==
    /\ DealExists(deal_id)
    /\ deals[deal_id].seller_id = user_id
    /\ deals[deal_id].status = "pending"
    /\ balance[deals[deal_id].buyer_id] >=
            deals[deal_id].amount + calculate_fee(deals[deal_id].amount)

\* Faulty variant of accept_deal: the status of the deal is not looked at,
\* so a second acceptance funds the deal again.
accept_deal_any_status(user_id, deal_id) ==
    IF /\ DealExists(deal_id)
       /\ deals[deal_id].seller_id = user_id
       /\ balance[deals[deal_id].buyer_id] >=
               deals[deal_id].amount + calculate_fee(deals[deal_id].amount)
    THEN LET deal == deals[deal_id]
             buyer == deal.buyer_id
             total_required == deal.amount + calculate_fee(deal.amount)
         IN  /\ deals' = SetStatus(deal_id, "funded")
             /\ balance' = [balance EXCEPT ![buyer] = @ - total_required]
             /\ escrowed' = [escrowed EXCEPT ![buyer] = @ + deal.amount]
             /\ transactions' =
                    AddTxn(Txn(buyer, deal_id, total_required, "escrow_funded", "none"))
             /\ UNCHANGED <<withdrawals, user_states>>
    ELSE no_effect

\* Faulty variant of accept_deal: the fee is put in escrow with the amount.
accept_deal_escrows_fee(user_id, deal_id) ==
    IF accept_deal_ok(user_id, deal_id)
    THEN LET deal == deals[deal_id]
             buyer == deal.buyer_id
             total_required == deal.amount + calculate_fee(deal.amount)
         IN  /\ deals' = SetStatus(deal_id, "funded")
             /\ balance' = [balance EXCEPT ![buyer] = @ - total_required]
             /\ escrowed' = [escrowed EXCEPT ![buyer] = @ + total_required]
             /\ transactions' =
                    AddTxn(Txn(buyer, deal_id, total_required, "escrow_funded", "none"))
             /\ UNCHANGED <<withdrawals, user_states>>
    ELSE no_effect

\* SecureDealzBot.accept_deal: the seller accepts and the buyer's funds are
\* moved to escrow in the same commit.
accept_deal(user_id, deal_id) ==
    IF accept_deal_ok(user_id, deal_id)
    THEN LET deal == deals[deal_id]
             buyer == deal.buyer_id
             service_fee == calculate_fee(deal.amount)
             total_required == deal.amount + service_fee
         IN  /\ deals' = SetStatus(deal_id, "funded")
             /\ balance' = [balance EXCEPT ![buyer] = @ - total_required]
             /\ escrowed' = [escrowed EXCEPT ![buyer] = @ + deal.amount]
             /\ transactions' =
                    AddTxn(Txn(buyer, deal_id, total_required, "escrow_funded", "none"))
             /\ UNCHANGED <<withdrawals, user_states>>
    ELSE no_effect

\* decline_deal, mark_delivered: the deal exists, the caller is its seller
\* and the deal has the status the handler starts from.
seller_step_ok(user_id, deal_id, status) ==
    /\ DealExists(deal_id)
    /\ deals[deal_id].seller_id = user_id
    /\ deals[deal_id].status = status

\* Faulty variant of buyer_step_ok: the caller is not compared with the buyer.
buyer_step_ok_any_user(user_id, deal_id, status) ==
    /\ DealExists(deal_id)
    /\ deals[deal_id].status = status

\* Faulty variant of buyer_step_ok: the status of the deal is not looked at.
buyer_step_ok_any_status(user_id, deal_id, status) ==
    /\ DealExists(deal_id)
    /\ deals[deal_id].buyer_id = user_id

\* release_payment, dispute_deal_prompt: the same for the buyer.
buyer_step_ok(user_id, deal_id, status) ==
    /\ DealExists(deal_id)
    /\ deals[deal_id].buyer_id = user_id
    /\ deals[deal_id].status = status

\* Faulty variant of decline_deal: the amount of the declined deal is
\* refunded to the buyer, who never paid it.
decline_deal_refunds(user_id, deal_id) ==
    IF seller_step_ok(user_id, deal_id, "pending")
    THEN /\ deals' = SetStatus(deal_id, "cancelled")
         /\ balance' = [balance EXCEPT ![deals[deal_id].buyer_id] = @ + deals[deal_id].amount]
         /\ UNCHANGED <<escrowed, withdrawals, transactions, user_states>>
    ELSE no_effect

\* SecureDealzBot.decline_deal
decline_deal(user_id, deal_id) ==
    IF seller_step_ok(user_id, deal_id, "pending")
    THEN /\ deals' = SetStatus(deal_id, "cancelled")
         /\ UNCHANGED <<balance, escrowed, withdrawals, transactions, user_states>>
    ELSE no_effect

\* SecureDealzBot.mark_delivered
mark_delivered(user_id, deal_id) ==
    IF seller_step_ok(user_id, deal_id, "funded")
    THEN /\ deals' = SetStatus(deal_id, "delivered")
         /\ UNCHANGED <<balance, escrowed, withdrawals, transactions, user_states>>
    ELSE no_effect

\* Faulty variant of release_payment: the seller is credited and the
\* buyer's escrowed amount is left as it is.
release_payment_keeps_escrow(user_id, deal_id) ==
    IF buyer_step_ok(user_id, deal_id, "delivered")
    THEN LET deal == deals[deal_id] IN
         /\ deals' = SetStatus(deal_id, "completed")
         /\ balance' = [balance EXCEPT ![deal.seller_id] = @ + deal.amount]
         /\ UNCHANGED <<escrowed, withdrawals, transactions, user_states>>
    ELSE no_effect

\* SecureDealzBot.release_payment: buyer.escrowed_amount -= amount, then
\* seller.balance += amount, on the rows of one session (one row when the
\* buyer is the seller); no Transaction row is added.
release_payment(user_id, deal_id) ==
    IF buyer_step_ok(user_id, deal_id, "delivered")
    THEN LET deal == deals[deal_id] IN
         /\ deals' = SetStatus(deal_id, "completed")
         /\ escrowed' = [escrowed EXCEPT ![deal.buyer_id] = @ - deal.amount]
         /\ balance' = [balance EXCEPT ![deal.seller_id] = @ + deal.amount]
         /\ UNCHANGED <<withdrawals, transactions, user_states>>
    ELSE no_effect

\* Faulty variant of dispute_deal_prompt: a dispute is also opened on a
\* funded deal, as the button of the deal-details view suggests.
dispute_deal_prompt_from_funded(user_id, deal_id) ==
    IF buyer_step_ok(user_id, deal_id, "delivered") \/ buyer_step_ok(user_id, deal_id, "funded")
    THEN /\ deals' = SetStatus(deal_id, "disputed")
         /\ UNCHANGED <<balance, escrowed, withdrawals, transactions, user_states>>
    ELSE no_effect

\* SecureDealzBot.dispute_deal_prompt
dispute_deal_prompt(user_id, deal_id) ==
    IF buyer_step_ok(user_id, deal_id, "delivered")
    THEN /\ deals' = SetStatus(deal_id, "disputed")
         /\ UNCHANGED <<balance, escrowed, withdrawals, transactions, user_states>>
    ELSE no_effect

\* SecureDealzBot.confirm_payment: funds a deal whose status is 'accepted',
\* debiting the amount without the fee.  No handler ever writes 'accepted'.
confirm_payment(user_id, deal_id) ==
    IF /\ DealExists(deal_id)
       /\ deals[deal_id].buyer_id = user_id
       /\ deals[deal_id].status = "accepted"
       /\ balance[user_id] >= deals[deal_id].amount
    THEN LET deal == deals[deal_id] IN
         /\ deals' = SetStatus(deal_id, "funded")
         /\ balance' = [balance EXCEPT ![user_id] = @ - deal.amount]
         /\ escrowed' = [escrowed EXCEPT ![user_id] = @ + deal.amount]
         /\ transactions' = AddTxn(Txn(user_id, deal_id, deal.amount, "escrow_funded", "none"))
         /\ UNCHANGED <<withdrawals, user_states>>
    ELSE no_effect

\* Faulty variant of process_dispute: the Dispute row is built with the
\* column name of the table, so the handler goes on to set the status.
process_dispute_sets_status(user_id, deal_id) ==
    IF DealExists(deal_id)
       /\ (deals[deal_id].buyer_id = user_id \/ deals[deal_id].seller_id = user_id)
    THEN /\ deals' = SetStatus(deal_id, "disputed")
         /\ UNCHANGED <<balance, escrowed, withdrawals, transactions, user_states>>
    ELSE no_effect

\* SecureDealzBot.process_dispute, the free-text dispute path.  For a party
\* of the deal it builds Dispute(complainant_id=...); the table has no such
\* column (raised_by_id), the constructor raises TypeError, and the lines
\* that set the status and commit are not reached.  For anyone else it only
\* pops a conversation state "dispute_<deal>", which nothing ever sets and
\* which is none of the states user_states keeps here.
process_dispute(user_id, deal_id) ==
    IF DealExists(deal_id)
       /\ (deals[deal_id].buyer_id = user_id \/ deals[deal_id].seller_id = user_id)
    THEN no_effect
    ELSE no_effect

(* ------------------------- dispute resolution ----------------------- *)
\* User.query.filter_by(is_admin=True).first() finds a row.
admin_exists == \E i \in 1 .. Len(users) : users[i].is_admin

\* SecureDealzBot.is_admin, what it returns: the user has a row and the row
\* holds is_admin.  (Its auto-grant, taken when no admin exists, is
\* is_admin_auto_grant below.)
is_admin(user_id) ==
    \E i \in 1 .. Len(users) : users[i].telegram_id = user_id /\ users[i].is_admin

\* Faulty variant of resolve_ok: the status of the deal is not looked at.
resolve_ok_any_status(deal_id) == DealExists(deal_id)

\* resolve_dispute_*: "if deal and deal.status == DealStatus.DISPUTED.value".
resolve_ok(deal_id) == DealExists(deal_id) /\ deals[deal_id].status = "disputed"

\* SecureDealzBot.resolve_dispute_favor_buyer: credits the buyer's balance;
\* escrowed_amount is not touched and no Transaction row is added.
resolve_dispute_favor_buyer(deal_id) ==
    IF resolve_ok(deal_id)
    THEN /\ deals' = SetStatus(deal_id, "completed")
         /\ balance' = [balance EXCEPT ![deals[deal_id].buyer_id] = @ + deals[deal_id].amount]
         /\ UNCHANGED <<escrowed, withdrawals, transactions, user_states>>
    ELSE no_effect

\* SecureDealzBot.resolve_dispute_favor_seller: only the status changes.
resolve_dispute_favor_seller(deal_id) ==
    IF resolve_ok(deal_id)
    THEN /\ deals' = SetStatus(deal_id, "completed")
         /\ UNCHANGED <<balance, escrowed, withdrawals, transactions, user_states>>
    ELSE no_effect

\* SecureDealzBot.resolve_dispute_split: credits half of the amount to the
\* buyer's balance; nothing else moves.
resolve_dispute_split(deal_id) ==
    IF resolve_ok(deal_id)
    THEN LET split_amount == deals[deal_id].amount \div 2 IN
         /\ deals' = SetStatus(deal_id, "completed")
         /\ balance' = [balance EXCEPT ![deals[deal_id].buyer_id] = @ + split_amount]
         /\ UNCHANGED <<escrowed, withdrawals, transactions, user_states>>
    ELSE no_effect

(* ------------------------------ deposits ---------------------------- *)
\* Transaction.query.filter_by(user_id, amount, transaction_type='deposit',
\* status='completed').first(): the crypto kind is not part of the filter.
existing_transaction(user_id, amount) ==
    \E t \in BagToSet(transactions) :
        /\ t.user_id = user_id
        /\ t.amount = amount
        /\ t.transaction_type = "deposit"
        /\ t.status = "completed"

\* Faulty variant of approve_deposit_ok: no look-up of an earlier deposit.
approve_deposit_ok_no_lookup(from_user, user_id, amount) ==
    is_admin(from_user)

\* admin_approve_deposit, the checks before the credit.
approve_deposit_ok(from_user, user_id, amount) ==
    is_admin(from_user) /\ ~existing_transaction(user_id, amount)

\* SecureDealzBot.admin_approve_deposit.  The credit and the Transaction row
\* are two commits with no await between them.
admin_approve_deposit(from_user, user_id, amount, crypto) ==
    IF approve_deposit_ok(from_user, user_id, amount)
    THEN /\ balance' = [balance EXCEPT ![user_id] = @ + amount]
         /\ transactions' = AddTxn(Txn(user_id, 0, amount, "deposit", crypto))
         /\ UNCHANGED <<escrowed, deals, withdrawals, user_states>>
    ELSE no_effect

\* admin_approve_deposit when its second commit raises (the connection is
\* lost, or generate_transaction_id returned the transaction_id of an
\* existing row and the unique column rejects it): the credit was committed
\* by the first commit, the row is not stored, the except branch answers.
admin_approve_deposit_row_fails(from_user, user_id, amount, crypto) ==
    IF approve_deposit_ok(from_user, user_id, amount)
    THEN /\ balance' = [balance EXCEPT ![user_id] = @ + amount]
         /\ UNCHANGED <<escrowed, deals, withdrawals, transactions, user_states>>
    ELSE no_effect

\* Faulty variant of admin_reject_deposit: the rejected claim is stored as a
\* deposit row, which the look-up of a later approval finds.
admin_reject_deposit_records_row(from_user, user_id, amount, crypto) ==
    /\ transactions' = AddTxn(Txn(user_id, 0, amount, "deposit", crypto))
    /\ UNCHANGED <<balance, escrowed, deals, withdrawals, user_states>>

\* SecureDealzBot.admin_reject_deposit: notifications only.
admin_reject_deposit(from_user, user_id, amount, crypto) == no_effect

(* ----------------------------- withdrawals -------------------------- *)
\* SecureDealzBot.process_withdrawal_request: opens the amount prompt.
process_withdrawal_request(user_id) ==
    /\ user_states' = [user_states EXCEPT ![user_id] =
            [action |-> "awaiting_withdrawal_amount", amount |-> 0]]
    /\ UNCHANGED ledger

\* The amount process_withdrawal_amount reads from the text: "all" is the
\* balance at that moment, a number is itself.
withdrawal_amount(user_id, text) ==
    IF text.kind = "all" THEN balance[user_id] ELSE text.v

\* process_withdrawal_amount, the checks: the text parses, the amount is at
\* least $10 and not above the balance.
withdrawal_amount_ok(user_id, text) ==
    /\ text.kind \in {"all", "number"}
    /\ ~(withdrawal_amount(user_id, text) < MinWithdrawal)
    /\ ~(withdrawal_amount(user_id, text) > balance[user_id])

\* SecureDealzBot.process_withdrawal_amount: the balance is only read here.
process_withdrawal_amount(user_id, text) ==
    IF withdrawal_amount_ok(user_id, text)
    THEN /\ user_states' = [user_states EXCEPT ![user_id] =
                [action |-> "awaiting_withdrawal_address",
                 amount |-> withdrawal_amount(user_id, text)]]
         /\ UNCHANGED ledger
    ELSE no_effect

\* len(wallet_address) < 20 or > 100 is rejected; numbers, "all" and
\* "/cancel" are shorter than 20 characters.
valid_address(text) ==
    text.kind = "address" /\ text.v >= MinAddressLen /\ text.v <= MaxAddressLen

\* Faulty variant of process_withdrawal_address: the balance is not checked
\* again, the amount validated at the amount step is reserved.
process_withdrawal_address_no_recheck(user_id, amount, text) ==
    IF ~valid_address(text)
    THEN no_effect
    ELSE /\ user_states' = [user_states EXCEPT ![user_id] = NoState]
         /\ UNCHANGED <<deals, transactions>>
         /\ balance' = [balance EXCEPT ![user_id] = @ - amount]
         /\ escrowed' = [escrowed EXCEPT ![user_id] = @ + amount]
         /\ withdrawals' = Append(withdrawals,
                [user_id |-> user_id, amount |-> amount, status |-> "pending"])

\* Faulty variant of process_withdrawal_address: the conversation state is
\* left in place when the amount is reserved.
process_withdrawal_address_keeps_state(user_id, amount, text) ==
    IF ~valid_address(text) \/ balance[user_id] < amount
    THEN no_effect
    ELSE /\ UNCHANGED <<deals, transactions, user_states>>
         /\ balance' = [balance EXCEPT ![user_id] = @ - amount]
         /\ escrowed' = [escrowed EXCEPT ![user_id] = @ + amount]
         /\ withdrawals' = Append(withdrawals,
                [user_id |-> user_id, amount |-> amount, status |-> "pending"])

\* SecureDealzBot.process_withdrawal_address: pops the conversation state,
\* then re-checks the balance on the locked row and reserves the amount.
process_withdrawal_address(user_id, amount, text) ==
    IF ~valid_address(text)
    THEN no_effect
    ELSE /\ user_states' = [user_states EXCEPT ![user_id] = NoState]
         /\ UNCHANGED <<deals, transactions>>
         /\ IF balance[user_id] < amount
            THEN UNCHANGED <<balance, escrowed, withdrawals>>
            ELSE /\ balance' = [balance EXCEPT ![user_id] = @ - amount]
                 /\ escrowed' = [escrowed EXCEPT ![user_id] = @ + amount]
                 /\ withdrawals' = Append(withdrawals,
                        [user_id |-> user_id, amount |-> amount, status |-> "pending"])

\* process_withdrawal_address when generate_withdrawal_id returned the
\* request_id of an existing request: the address is valid, the state is
\* popped, the commit at the end of db.session.begin() raises on the unique
\* column, the reservation is rolled back and the except branch answers.
process_withdrawal_address_collides(user_id, amount, text) ==
    IF ~valid_address(text)
    THEN no_effect
    ELSE /\ user_states' = [user_states EXCEPT ![user_id] = NoState]
         /\ UNCHANGED ledger

\* Faulty variant of withdrawal_step_ok: the status of the request is not
\* looked at.
withdrawal_step_ok_any_status(withdrawal_id) ==
    /\ WithdrawalExists(withdrawal_id)
    /\ ~(escrowed[withdrawals[withdrawal_id].user_id] < withdrawals[withdrawal_id].amount)

\* confirm_withdrawal / reject_withdrawal, the checks: the request exists,
\* is pending, and the account's escrowed amount covers it.
withdrawal_step_ok(withdrawal_id) ==
    /\ WithdrawalExists(withdrawal_id)
    /\ withdrawals[withdrawal_id].status = "pending"
    /\ ~(escrowed[withdrawals[withdrawal_id].user_id] < withdrawals[withdrawal_id].amount)

\* Faulty variant of confirm_withdrawal: the Transaction row carries the
\* amount with a positive sign.
confirm_withdrawal_positive_row(withdrawal_id) ==
    IF withdrawal_step_ok(withdrawal_id)
    THEN LET withdrawal == withdrawals[withdrawal_id] IN
         /\ withdrawals' = [withdrawals EXCEPT ![withdrawal_id].status = "completed"]
         /\ escrowed' = [escrowed EXCEPT ![withdrawal.user_id] = @ - withdrawal.amount]
         /\ transactions' = AddTxn(Txn(withdrawal.user_id, 0, withdrawal.amount,
                                      "withdrawal", "none"))
         /\ UNCHANGED <<balance, deals, user_states>>
    ELSE no_effect

\* SecureDealzBot.confirm_withdrawal
confirm_withdrawal(withdrawal_id) ==
    IF withdrawal_step_ok(withdrawal_id)
    THEN LET withdrawal == withdrawals[withdrawal_id] IN
         /\ withdrawals' = [withdrawals EXCEPT ![withdrawal_id].status = "completed"]
         /\ escrowed' = [escrowed EXCEPT ![withdrawal.user_id] = @ - withdrawal.amount]
         /\ transactions' = AddTxn(Txn(withdrawal.user_id, 0, 0 - withdrawal.amount,
                                      "withdrawal", "none"))
         /\ UNCHANGED <<balance, deals, user_states>>
    ELSE no_effect

\* Faulty variant of reject_withdrawal: the amount is returned to the balance
\* and stays in escrowed.
reject_withdrawal_keeps_escrow(withdrawal_id) ==
    IF withdrawal_step_ok(withdrawal_id)
    THEN LET withdrawal == withdrawals[withdrawal_id] IN
         /\ withdrawals' = [withdrawals EXCEPT ![withdrawal_id].status = "rejected"]
         /\ balance' = [balance EXCEPT ![withdrawal.user_id] = @ + withdrawal.amount]
         /\ UNCHANGED <<escrowed, deals, transactions, user_states>>
    ELSE no_effect

\* SecureDealzBot.reject_withdrawal: no Transaction row is added.
reject_withdrawal(withdrawal_id) ==
    IF withdrawal_step_ok(withdrawal_id)
    THEN LET withdrawal == withdrawals[withdrawal_id] IN
         /\ withdrawals' = [withdrawals EXCEPT ![withdrawal_id].status = "rejected"]
         /\ escrowed' = [escrowed EXCEPT ![withdrawal.user_id] = @ - withdrawal.amount]
         /\ balance' = [balance EXCEPT ![withdrawal.user_id] = @ + withdrawal.amount]
         /\ UNCHANGED <<deals, transactions, user_states>>
    ELSE no_effect

(* ---------------------------- deal creation ------------------------- *)
\* float("nan"), the one non-finite value that gets past the amount check;
\* it stands among the amounts as a value that is no amount of money.
NaN == 0 - 1

\* The comparison x < y of two floats: False when either is NaN.
Less(x, y) == x # NaN /\ y # NaN /\ x < y

\* process_deal_creation, the amount check: the text is refused when
\* `amount < 1 or amount > 50000`, so NaN, for which neither holds, passes.
deal_amount_ok(amount) ==
    ~(Less(amount, MinDealAmount) \/ Less(MaxDealAmount, amount))

\* SecureDealzBot.process_deal_creation, reached with the conversation state
\* create_deal_<target_user_id>; the caller becomes the buyer, the target
\* the seller, and the conversation state is cleared once the deal is stored.
process_deal_creation(user_id, target_user_id, amount) ==
    IF deal_amount_ok(amount)
    THEN /\ deals' = Append(deals, [buyer_id |-> user_id, seller_id |-> target_user_id,
                                    amount |-> amount, status |-> "pending"])
         /\ user_states' = [user_states EXCEPT ![user_id] = NoState]
         /\ UNCHANGED <<balance, escrowed, withdrawals, transactions>>
    ELSE no_effect

\* process_deal_creation when generate_deal_id returned the deal_id of an
\* existing deal: the commit raises on the unique column, neither the deal
\* nor the notification is stored and the except branch pops the state.
process_deal_creation_collides(user_id, target_user_id, amount) ==
    IF deal_amount_ok(amount)
    THEN /\ user_states' = [user_states EXCEPT ![user_id] = NoState]
         /\ UNCHANGED ledger
    ELSE no_effect

(* ------------------------------ messages ---------------------------- *)
\* Message texts, by what the handlers make of them.
Texts ==
    {[kind |-> "cancel", v |-> 0], [kind |-> "all", v |-> 0]}
    \cup {[kind |-> "number", v |-> n] : n \in WithdrawNumbers}
    \cup {[kind |-> "address", v |-> a] : a \in AddressLengths}

\* message_handler: "/cancel" pops the state, otherwise the state of the
\* sender at the time the handler runs selects the handler.
message_handler(user_id, text) ==
    LET state == user_states[user_id] IN
    IF text.kind = "cancel"
    THEN /\ user_states' = [user_states EXCEPT ![user_id] = NoState]
         /\ UNCHANGED ledger
    ELSE IF state.action = "awaiting_withdrawal_amount"
    THEN process_withdrawal_amount(user_id, text)
    ELSE IF state.action = "awaiting_withdrawal_address"
    THEN process_withdrawal_address(user_id, state.amount, text)
    ELSE no_effect

\* The texts on which message_handler changes anything.
message_ok(user_id, text) ==
    LET state == user_states[user_id] IN
    \/ text.kind = "cancel" /\ state # NoState
    \/ text.kind # "cancel" /\ state.action = "awaiting_withdrawal_amount"
            /\ withdrawal_amount_ok(user_id, text)
    \/ text.kind # "cancel" /\ state.action = "awaiting_withdrawal_address"
            /\ valid_address(text)

\* The table bound: a reservation needs room for its row.
RoomForWithdrawal(user_id, text) ==
    LET state == user_states[user_id] IN
    (state.action = "awaiting_withdrawal_address" /\ valid_address(text)
        /\ ~(balance[user_id] < state.amount))
    => Len(withdrawals) < MaxWithdrawals

(* ------------------------------ actions ----------------------------- *)
\* Each action is one update handled from its arrival to its commit.  A
\* handler that returns early changes nothing, which is a stuttering step,
\* so an action is enabled only where its handler gets past its checks.

\* The deal conversation (create_deal_prompt, search_user_by_username, then
\* process_deal_creation on the "Title | Amount | Description" text).
CreateDeal == \E user_id \in Customers, target_user_id \in Users, amount \in DealTexts :
    /\ Len(deals) < MaxDeals
    /\ deal_amount_ok(amount)
    /\ process_deal_creation(user_id, target_user_id, amount)
    /\ UNCHANGED <<inflight, users>>

\* button_handler, the accept_deal_ / decline_deal_ / deliver_deal_ /
\* release_payment_ / dispute_deal_ branches.
AcceptDeal == \E user_id \in Users, deal_id \in DealIds :
    /\ accept_deal_ok(user_id, deal_id)
    /\ accept_deal(user_id, deal_id)
    /\ UNCHANGED <<inflight, users>>
DeclineDeal == \E user_id \in Users, deal_id \in DealIds :
    /\ seller_step_ok(user_id, deal_id, "pending")
    /\ decline_deal(user_id, deal_id)
    /\ UNCHANGED <<inflight, users>>
MarkDelivered == \E user_id \in Users, deal_id \in DealIds :
    /\ seller_step_ok(user_id, deal_id, "funded")
    /\ mark_delivered(user_id, deal_id)
    /\ UNCHANGED <<inflight, users>>
ReleasePayment == \E user_id \in Users, deal_id \in DealIds :
    /\ buyer_step_ok(user_id, deal_id, "delivered")
    /\ release_payment(user_id, deal_id)
    /\ UNCHANGED <<inflight, users>>
OpenDispute == \E user_id \in Users, deal_id \in DealIds :
    /\ buyer_step_ok(user_id, deal_id, "delivered")
    /\ dispute_deal_prompt(user_id, deal_id)
    /\ UNCHANGED <<inflight, users>>

\* button_handler, the confirm_payment_ branch.
ConfirmPayment == \E user_id \in Users, deal_id \in DealIds :
    /\ DealExists(deal_id)
    /\ confirm_payment(user_id, deal_id)
    /\ UNCHANGED <<inflight, users>>

\* message_handler, the "dispute_" branch, called for a deal and a text.
FreeTextDispute == \E user_id \in Users, deal_id \in DealIds :
    /\ DealExists(deal_id)
    /\ process_dispute(user_id, deal_id)
    /\ UNCHANGED <<inflight, users>>

\* button_handler, the resolve_ branch: is_admin gates handle_all_dispute_actions.
ResolveFavorBuyer == \E from_user \in Users, deal_id \in DealIds :
    /\ is_admin(from_user) /\ resolve_ok(deal_id)
    /\ resolve_dispute_favor_buyer(deal_id)
    /\ UNCHANGED <<inflight, users>>
ResolveFavorSeller == \E from_user \in Users, deal_id \in DealIds :
    /\ is_admin(from_user) /\ resolve_ok(deal_id)
    /\ resolve_dispute_favor_seller(deal_id)
    /\ UNCHANGED <<inflight, users>>
ResolveSplit == \E from_user \in Users, deal_id \in DealIds :
    /\ is_admin(from_user) /\ resolve_ok(deal_id)
    /\ resolve_dispute_split(deal_id)
    /\ UNCHANGED <<inflight, users>>

\* button_handler, the admin_approve_deposit_ and admin_reject_deposit_
\* branches.
ApproveDeposit == \E from_user \in Users, user_id \in Customers,
                     amount \in DepositAmounts, crypto \in Cryptos :
    /\ approve_deposit_ok(from_user, user_id, amount)
    /\ admin_approve_deposit(from_user, user_id, amount, crypto)
    /\ UNCHANGED <<inflight, users>>

RejectDeposit == \E from_user \in Users, user_id \in Customers,
                    amount \in DepositAmounts, crypto \in Cryptos :
    /\ is_admin(from_user)
    /\ admin_reject_deposit(from_user, user_id, amount, crypto)
    /\ UNCHANGED <<inflight, users>>

\* button_handler, the request_withdrawal_ branch.
RequestWithdrawal == \E user_id \in Customers :
    /\ user_states[user_id].action # "awaiting_withdrawal_amount"
    /\ process_withdrawal_request(user_id)
    /\ UNCHANGED <<inflight, users>>

\* message_handler on a text message.
Message == \E user_id \in Users, text \in Texts :
    /\ message_ok(user_id, text)
    /\ RoomForWithdrawal(user_id, text)
    /\ message_handler(user_id, text)
    /\ UNCHANGED <<inflight, users>>

\* confirm_withdrawal / reject_withdrawal, called with a request id.
ConfirmWithdrawal == \E withdrawal_id \in WithdrawalIds :
    /\ withdrawal_step_ok(withdrawal_id)
    /\ confirm_withdrawal(withdrawal_id)
    /\ UNCHANGED <<inflight, users>>
RejectWithdrawal == \E withdrawal_id \in WithdrawalIds :
    /\ withdrawal_step_ok(withdrawal_id)
    /\ reject_withdrawal(withdrawal_id)
    /\ UNCHANGED <<inflight, users>>

(* ------------------------- the event loop --------------------------- *)
\* A Telegram update as the handlers see it: the callback data or the kind
\* of message, the sender, and the fields parsed out of the callback data
\* (deal or user id, amount, crypto kind) or the message text (its value
\* and kind).
Update(data, from_user, a, b, c) ==
    [data |-> data, from_user |-> from_user, a |-> a, b |-> b, c |-> c]

TextOf(u) == [kind |-> u.c, v |-> u.a]

DealButtons == {"accept_deal", "decline_deal", "deliver_deal", "release_payment",
                "dispute_deal"}
ResolveButtons == {"resolve_favor_buyer", "resolve_favor_seller", "resolve_split"}

Updates ==
    {Update(k, u, d, 0, "") : k \in DealButtons \cup ResolveButtons, u \in Users, d \in DealIds}
    \cup {Update("admin_approve_deposit", u, v, n, c) :
                u \in Users, v \in Customers, n \in DepositAmounts, c \in Cryptos}
    \cup {Update("request_withdrawal", u, u, 0, "") : u \in Customers}
    \cup {Update("message", u, t.v, 0, t.kind) : u \in Customers, t \in Texts}
    \cup {Update(k, Admin, w, 0, "") :
                k \in {"confirm_withdrawal", "reject_withdrawal"}, w \in WithdrawalIds}

\* The buttons the bot has put in front of the sender: show_deal_details
\* offers the deal buttons by status and role, handle_dispute_resolution
\* the resolve buttons for a disputed deal, show_withdraw_funds the
\* withdrawal button from a balance of $10; the approve button reaches the
\* admin with every deposit a user claims, and a text answers a prompt.
\* confirm_withdrawal and reject_withdrawal have no branch in button_handler:
\* they are coroutines called with the id of a request that is pending when
\* the call is made.
Offered(u) ==
    LET deal == deals[u.a]
        is_seller == deal.seller_id = u.from_user
        is_buyer == deal.buyer_id = u.from_user
    IN
    CASE u.data \in {"accept_deal", "decline_deal"} ->
            DealExists(u.a) /\ deal.status = "pending" /\ is_seller
      [] u.data = "deliver_deal" ->
            DealExists(u.a) /\ deal.status = "funded" /\ is_seller
      [] u.data = "release_payment" ->
            DealExists(u.a) /\ deal.status = "delivered" /\ is_buyer
      [] u.data = "dispute_deal" ->
            DealExists(u.a) /\ \/ deal.status = "delivered" /\ (is_buyer \/ is_seller)
                               \/ deal.status = "funded" /\ is_buyer /\ ~is_seller
      [] u.data \in ResolveButtons ->
            is_admin(u.from_user) /\ DealExists(u.a) /\ deal.status = "disputed"
      [] u.data = "admin_approve_deposit" -> is_admin(u.from_user)
      [] u.data = "request_withdrawal" -> balance[u.a] >= MinWithdrawal
      [] u.data = "message" -> user_states[u.from_user] # NoState
      [] u.data \in {"confirm_withdrawal", "reject_withdrawal"} ->
            WithdrawalExists(u.a) /\ withdrawals[u.a].status = "pending"

\* webhook(): asyncio.run_coroutine_threadsafe(process_update(update), loop).
\* The update stays in flight until the loop runs its handler.
Webhook(u) ==
    /\ BagCardinality(inflight) < MaxInflight
    /\ Offered(u)
    /\ UNCHANGED users
    /\ inflight' = inflight (+) SetToBag({u})
    /\ UNCHANGED <<balance, escrowed, deals, withdrawals, transactions, user_states>>

\* The event loop resumes the handler of one update in flight; the handler
\* runs without suspension from its first query to its commit.
Taken(u) ==
    /\ BagIn(u, inflight)
    /\ UNCHANGED users
    /\ inflight' = inflight (-) SetToBag({u})

\* button_handler / message_handler: the branch taken for the update.
handle(u) ==
    CASE u.data = "accept_deal" -> accept_deal(u.from_user, u.a)
      [] u.data = "decline_deal" -> decline_deal(u.from_user, u.a)
      [] u.data = "deliver_deal" -> mark_delivered(u.from_user, u.a)
      [] u.data = "release_payment" -> release_payment(u.from_user, u.a)
      [] u.data = "dispute_deal" -> dispute_deal_prompt(u.from_user, u.a)
      [] u.data = "resolve_favor_buyer" ->
            IF is_admin(u.from_user) THEN resolve_dispute_favor_buyer(u.a) ELSE no_effect
      [] u.data = "resolve_favor_seller" ->
            IF is_admin(u.from_user) THEN resolve_dispute_favor_seller(u.a) ELSE no_effect
      [] u.data = "resolve_split" ->
            IF is_admin(u.from_user) THEN resolve_dispute_split(u.a) ELSE no_effect
      [] u.data = "admin_approve_deposit" ->
            admin_approve_deposit(u.from_user, u.a, u.b, u.c)
      [] u.data = "request_withdrawal" -> process_withdrawal_request(u.a)
      [] u.data = "message" ->
            RoomForWithdrawal(u.from_user, TextOf(u))
            /\ message_handler(u.from_user, TextOf(u))
      [] u.data = "confirm_withdrawal" -> confirm_withdrawal(u.a)
      [] u.data = "reject_withdrawal" -> reject_withdrawal(u.a)

\* The updates of the deal, dispute and deposit buttons: the ones whose
\* handlers are raced against each other on the loop.
LoopUpdates == {u \in Updates : u.data \in
    DealButtons \cup ResolveButtons \cup {"admin_approve_deposit"}}

\* The updates of the withdrawal conversation and the calls that settle a
\* withdrawal request.
PayoutUpdates == Updates \ LoopUpdates

Schedule == \E u \in LoopUpdates : Webhook(u)
SchedulePayout == \E u \in PayoutUpdates : Webhook(u)

LoopDealButton == \E u \in Updates : u.data \in DealButtons /\ Taken(u) /\ handle(u)
LoopResolve == \E u \in Updates : u.data \in ResolveButtons /\ Taken(u) /\ handle(u)
LoopApproveDeposit == \E u \in Updates :
    u.data = "admin_approve_deposit" /\ Taken(u) /\ handle(u)

LoopRequestWithdrawal == \E u \in Updates :
    u.data = "request_withdrawal" /\ Taken(u) /\ handle(u)
LoopMessage == \E u \in Updates : u.data = "message" /\ Taken(u) /\ handle(u)
LoopConfirmWithdrawal == \E u \in Updates :
    u.data = "confirm_withdrawal" /\ Taken(u) /\ handle(u)
LoopRejectWithdrawal == \E u \in Updates :
    u.data = "reject_withdrawal" /\ Taken(u) /\ handle(u)

Init ==
    /\ balance = [u \in Users |-> 0]
    /\ escrowed = [u \in Users |-> 0]
    /\ deals = << >>
    /\ withdrawals = << >>
    /\ transactions = EmptyBag
    /\ user_states = [u \in Users |-> NoState]
    /\ inflight = EmptyBag
    /\ users = RegisteredUsers

Next ==
    \/ CreateDeal
    \/ AcceptDeal
    \/ DeclineDeal
    \/ MarkDelivered
    \/ ReleasePayment
    \/ OpenDispute
    \/ ConfirmPayment
    \/ FreeTextDispute
    \/ ResolveFavorBuyer
    \/ ResolveFavorSeller
    \/ ResolveSplit
    \/ ApproveDeposit
    \/ RejectDeposit
    \/ RequestWithdrawal
    \/ Message
    \/ ConfirmWithdrawal
    \/ RejectWithdrawal

Spec == Init /\ [][Next]_vars

(* --------------------------- the fee sweep -------------------------- *)
\* Deal amounts in whole cents around the $100 threshold, and $1000.
FeeAmounts ==
    {FeeThreshold + d * Cent : d \in (0 - FeeRange) .. FeeRange} \cup {1000 * Dollar}

\* The buyer's funds in the sweep: an approved deposit of $1050.
FeeFunds == 1050 * Dollar

InitFee ==
    /\ balance = [u \in Users |-> IF u \in Customers THEN FeeFunds ELSE 0]
    /\ escrowed = [u \in Users |-> 0]
    /\ deals = << >>
    /\ withdrawals = << >>
    /\ transactions = SetToBag({Txn(u, 0, FeeFunds, "deposit", "usdt") : u \in Customers})
    /\ user_states = [u \in Users |-> NoState]
    /\ inflight = EmptyBag
    /\ users = RegisteredUsers

\* process_deal_creation with the admin as seller and any amount of the sweep.
FeeCreateDeal == \E user_id \in Customers, amount \in FeeAmounts :
    /\ Len(deals) < MaxFeeDeals
    /\ process_deal_creation(user_id, Admin, amount)
    /\ UNCHANGED <<inflight, users>>

NextFee ==
    \/ FeeCreateDeal
    \/ AcceptDeal

SpecFee == InitFee /\ [][NextFee]_vars

\* The same handlers with the updates in flight on the event loop: an
\* update is scheduled by the webhook and handled later, in any order.
LoopNext ==
    \/ Schedule
    \/ CreateDeal
    \/ LoopDealButton
    \/ LoopResolve
    \/ LoopApproveDeposit

SpecLoop == Init /\ [][LoopNext]_vars

\* The withdrawal conversation and the settlement calls in flight on the
\* event loop, next to deposits and deals handled in one step.
PayoutNext ==
    \/ SchedulePayout
    \/ ApproveDeposit
    \/ CreateDeal
    \/ AcceptDeal
    \/ LoopRequestWithdrawal
    \/ LoopMessage
    \/ LoopConfirmWithdrawal
    \/ LoopRejectWithdrawal

SpecPayout == Init /\ [][PayoutNext]_vars

(* ------------------------- failing commits -------------------------- *)
\* The deposit button and the withdrawal conversation in flight on the event
\* loop, with commits that can raise.
FaultUpdates == {u \in Updates : u.data \in
    {"admin_approve_deposit", "request_withdrawal", "message"}}

ScheduleFault == \E u \in FaultUpdates : Webhook(u)

\* The second commit of admin_approve_deposit raises.
ApproveDepositRowFails == \E u \in Updates :
    /\ u.data = "admin_approve_deposit"
    /\ balance[u.a] + u.b <= MaxCredits * 105 * Dollar
    /\ Taken(u)
    /\ admin_approve_deposit_row_fails(u.from_user, u.a, u.b, u.c)

\* generate_withdrawal_id repeats the id of a stored request.
WithdrawalIdCollides == \E u \in Updates :
    /\ u.data = "message"
    /\ u.c = "address"
    /\ user_states[u.from_user].action = "awaiting_withdrawal_address"
    /\ balance[u.from_user] >= user_states[u.from_user].amount
    /\ Len(withdrawals) > 0
    /\ Taken(u)
    /\ process_withdrawal_address_collides(u.from_user,
            user_states[u.from_user].amount, TextOf(u))

\* process_deal_creation in the runs with failing commits.
FaultCreateDeal == \E user_id \in Customers, target_user_id \in Users, amount \in DealTexts :
    /\ Len(deals) < MaxFaultDeals
    /\ deal_amount_ok(amount)
    /\ process_deal_creation(user_id, target_user_id, amount)
    /\ UNCHANGED <<inflight, users>>

\* generate_deal_id repeats the id of a stored deal.
DealIdCollides == \E user_id \in Customers, target_user_id \in Users, amount \in DealTexts :
    /\ Len(deals) > 0
    /\ deal_amount_ok(amount)
    /\ process_deal_creation_collides(user_id, target_user_id, amount)
    /\ UNCHANGED <<inflight, users>>

FaultNext ==
    \/ ScheduleFault
    \/ LoopApproveDeposit
    \/ ApproveDepositRowFails
    \/ LoopRequestWithdrawal
    \/ LoopMessage
    \/ WithdrawalIdCollides
    \/ FaultCreateDeal
    \/ DealIdCollides

SpecFault == Init /\ [][FaultNext]_vars

(* ----------------------- any user, any button ---------------------- *)
\* callback_data is text the client sends back: a user can press a button
\* of an old or forwarded message, whatever the bot offers at the moment.
Pressed(u) ==
    /\ BagCardinality(inflight) < MaxPressed
    /\ UNCHANGED users
    /\ inflight' = inflight (+) SetToBag({u})
    /\ UNCHANGED <<balance, escrowed, deals, withdrawals, transactions, user_states>>

ScheduleAny == \E u \in LoopUpdates : Pressed(u)

RolesNext ==
    \/ ScheduleAny
    \/ CreateDeal
    \/ LoopDealButton
    \/ LoopResolve
    \/ LoopApproveDeposit

SpecRoles == Init /\ [][RolesNext]_vars

(* ----------------------------- row locks ---------------------------- *)
\* process_withdrawal_address reads the users row with_for_update inside
\* db.session.begin() and, when the balance no longer covers the amount,
\* awaits reply_text before it leaves the block: the coroutine is suspended
\* on the network call with the transaction open and the row locked.  Each
\* handler has an app context, a session and a connection of its own, and
\* the engine is given no lock or statement timeout (main.py), so a write to
\* a locked row waits in the driver, on the one thread that runs the loop.
Suspended(user_id) == Update("reply_text", user_id, user_id, 0, "")

\* A handler of from_user waits in the driver for the lock on a users row.
Blocked(from_user, user_id) == Update("blocked", from_user, user_id, 0, "")

RowLocked(user_id) == BagIn(Suspended(user_id), inflight)

LoopBlocked == \E from_user \in Users, user_id \in Users :
    BagIn(Blocked(from_user, user_id), inflight)

\* The calling handler stops in its UPDATE or SELECT ... FOR UPDATE.
Block(from_user, user_id) ==
    /\ UNCHANGED users
    /\ inflight' = inflight (+) SetToBag({Blocked(from_user, user_id)})
    /\ UNCHANGED ledger

LockUpdates == {u \in Updates : u.data \in {"request_withdrawal", "message"}}

ScheduleLock == \E u \in LockUpdates : Webhook(u)

\* The address step of the withdrawal conversation gets to the locked read.
ReachesLock(u) ==
    /\ u.data = "message"
    /\ user_states[u.from_user].action = "awaiting_withdrawal_address"
    /\ valid_address(TextOf(u))

\* admin_approve_deposit: user.balance += amount; db.session.commit().
LockApproveDeposit == \E from_user \in Users, user_id \in Customers,
                         amount \in DepositAmounts, crypto \in Cryptos :
    /\ ~LoopBlocked
    /\ approve_deposit_ok(from_user, user_id, amount)
    /\ IF RowLocked(user_id)
       THEN Block(from_user, user_id) /\ UNCHANGED user_states
       ELSE admin_approve_deposit(from_user, user_id, amount, crypto) /\ UNCHANGED <<inflight, users>>

\* process_deal_creation stores a Deal and a Notification and updates no
\* users row.
LockCreateDeal == \E user_id \in Customers, target_user_id \in Users, amount \in DealTexts :
    /\ ~LoopBlocked
    /\ Len(deals) < MaxFaultDeals
    /\ deal_amount_ok(amount)
    /\ process_deal_creation(user_id, target_user_id, amount)
    /\ UNCHANGED <<inflight, users>>

\* accept_deal: buyer.balance -= total_required; ...; db.session.commit().
LockAcceptDeal == \E user_id \in Users, deal_id \in DealIds :
    /\ ~LoopBlocked
    /\ accept_deal_ok(user_id, deal_id)
    /\ IF RowLocked(deals[deal_id].buyer_id)
       THEN Block(user_id, deals[deal_id].buyer_id) /\ UNCHANGED user_states
       ELSE accept_deal(user_id, deal_id) /\ UNCHANGED <<inflight, users>>

LockRequestWithdrawal == ~LoopBlocked /\ LoopRequestWithdrawal

\* message_handler where the handler runs from start to end in one step:
\* every text but a valid address that finds the balance short or the row
\* locked.
LockMessage == \E u \in Updates :
    /\ ~LoopBlocked
    /\ u.data = "message"
    /\ ReachesLock(u) =>
            /\ ~RowLocked(u.from_user)
            /\ balance[u.from_user] >= user_states[u.from_user].amount
    /\ Taken(u)
    /\ handle(u)

\* process_withdrawal_address, the insufficient-balance branch up to its
\* await: the state is popped, the row is locked, reply_text is pending.
SuspendOnReply == \E u \in Updates :
    /\ ~LoopBlocked
    /\ ReachesLock(u)
    /\ ~RowLocked(u.from_user)
    /\ balance[u.from_user] < user_states[u.from_user].amount
    /\ BagIn(u, inflight)
    /\ UNCHANGED users
    /\ inflight' = (inflight (-) SetToBag({u})) (+) SetToBag({Suspended(u.from_user)})
    /\ user_states' = [user_states EXCEPT ![u.from_user] = NoState]
    /\ UNCHANGED ledger

\* process_withdrawal_address whose locked read finds the row locked by a
\* suspended handler of the same user.
BlockOnSelect == \E u \in Updates :
    /\ ~LoopBlocked
    /\ ReachesLock(u)
    /\ RowLocked(u.from_user)
    /\ BagIn(u, inflight)
    /\ UNCHANGED users
    /\ inflight' = (inflight (-) SetToBag({u}))
                        (+) SetToBag({Blocked(u.from_user, u.from_user)})
    /\ user_states' = [user_states EXCEPT ![u.from_user] = NoState]
    /\ UNCHANGED ledger

\* reply_text returns, the handler returns out of db.session.begin() and the
\* lock is released.  The loop resumes a coroutine only while it runs.
ResumeReply == \E user_id \in Users :
    /\ ~LoopBlocked
    /\ RowLocked(user_id)
    /\ UNCHANGED users
    /\ inflight' = inflight (-) SetToBag({Suspended(user_id)})
    /\ UNCHANGED <<balance, escrowed, deals, withdrawals, transactions, user_states>>

LockNext ==
    \/ ScheduleLock
    \/ LockApproveDeposit
    \/ LockCreateDeal
    \/ LockAcceptDeal
    \/ LockRequestWithdrawal
    \/ LockMessage
    \/ SuspendOnReply
    \/ BlockOnSelect
    \/ ResumeReply

SpecLock == Init /\ [][LockNext]_vars

(* ------------------------- deposit buttons -------------------------- *)
\* The two buttons the admin gets with every deposit a user claims; the
\* callback data carries the account, the amount and the kind.
DepositUpdates ==
    {Update(k, u, v, n, c) : k \in {"admin_approve_deposit", "admin_reject_deposit"},
                             u \in Users, v \in Customers, n \in DepositAmounts, c \in Cryptos}

ScheduleDeposit == \E u \in DepositUpdates :
    /\ BagCardinality(inflight) < MaxInflight
    /\ UNCHANGED users
    /\ inflight' = inflight (+) SetToBag({u})
    /\ UNCHANGED <<balance, escrowed, deals, withdrawals, transactions, user_states>>

\* button_handler, the admin_approve_deposit_ branch.
DepositApprove == \E u \in DepositUpdates :
    /\ u.data = "admin_approve_deposit"
    /\ Taken(u)
    /\ admin_approve_deposit(u.from_user, u.a, u.b, u.c)

\* button_handler, the admin_reject_deposit_ branch, behind is_admin.
DepositReject == \E u \in DepositUpdates :
    /\ u.data = "admin_reject_deposit"
    /\ Taken(u)
    /\ IF is_admin(u.from_user)
       THEN admin_reject_deposit(u.from_user, u.a, u.b, u.c)
       ELSE no_effect

DepositNext ==
    \/ ScheduleDeposit
    \/ DepositApprove
    \/ DepositReject

SpecDeposit == Init /\ [][DepositNext]_vars

(* ------------- the text of a deal, as float() reads it -------------- *)
\* search_user_by_username: the user found becomes the target of the deal
\* conversation, state create_deal_<target_user.id>; the number the state
\* string carries is kept in the second field of the state.
search_user_by_username(user_id, target_user_id) ==
    /\ user_states' = [user_states EXCEPT ![user_id] =
                            [action |-> "create_deal", amount |-> target_user_id]]
    /\ UNCHANGED ledger

\* The "Title | Amount | Description" texts a buyer sends, by what
\* process_deal_creation makes of them: a text whose second part float()
\* reads as a number (50 cents, the amounts of DealTexts), the text
\* "x | nan | y" that float() reads as NaN, and a text that raises
\* ValueError (not three parts, or a second part float() cannot read).
CreateTexts ==
    {[kind |-> "number", v |-> n] : n \in {Dollar \div 2} \cup DealTexts}
    \cup {[kind |-> "nan", v |-> NaN], [kind |-> "malformed", v |-> 0]}

\* process_deal_creation, the split of the text and float() of its second
\* part: ValueError is answered with the format hint before any query.
deal_info_ok(text) == text.kind # "malformed"

CreateUpdates ==
    {Update("message", u, t.v, 0, t.kind) : u \in Customers, t \in CreateTexts}

ScheduleCreate == \E u \in CreateUpdates :
    /\ BagCardinality(inflight) < MaxInflight
    /\ UNCHANGED users
    /\ inflight' = inflight (+) SetToBag({u})
    /\ UNCHANGED <<balance, escrowed, deals, withdrawals, transactions, user_states>>

FindSeller == \E user_id \in Customers, target_user_id \in Users :
    /\ search_user_by_username(user_id, target_user_id)
    /\ UNCHANGED <<inflight, users>>

\* message_handler, the create_deal_ branch; any other state of the sender
\* gets the default answer.
CreateMessage == \E u \in CreateUpdates :
    /\ Len(deals) < MaxDeals
    /\ Taken(u)
    /\ LET state == user_states[u.from_user] IN
       IF state.action = "create_deal" /\ deal_info_ok(TextOf(u))
       THEN process_deal_creation(u.from_user, state.amount, u.a)
       ELSE no_effect

CreateNext ==
    \/ ScheduleCreate
    \/ FindSeller
    \/ CreateMessage
    \/ ApproveDeposit

SpecCreate == Init /\ [][CreateNext]_vars

(* --------------- the callbacks button_handler routes ---------------- *)
\* Faulty variant of button_handler: callback data confirm_withdrawal_<id>
\* and reject_withdrawal_<id> have branches that call the two coroutines.
button_handler_routes_withdrawals(u) == handle(u)

\* button_handler: the branch of the callback data.  Data that starts with
\* confirm_withdrawal_ or reject_withdrawal_ matches no branch ("Withdrawal
\* handlers removed") and gets the catch-all answer.
button_handler(u) ==
    IF u.data \in {"confirm_withdrawal", "reject_withdrawal"}
    THEN no_effect
    ELSE handle(u)

\* A callback query of the withdrawal buttons, taken by the loop.
RoutedCallback == \E u \in PayoutUpdates :
    /\ u.data # "message"
    /\ Taken(u)
    /\ button_handler(u)

\* Deposits, deals and the withdrawal conversation with every update,
\* callback data naming a withdrawal request included, entering through
\* button_handler and message_handler.
RoutedNext ==
    \/ SchedulePayout
    \/ ApproveDeposit
    \/ CreateDeal
    \/ AcceptDeal
    \/ MarkDelivered
    \/ ReleasePayment
    \/ RoutedCallback
    \/ LoopMessage

SpecRouted == Init /\ [][RoutedNext]_vars

(* -------------------------- the users table ------------------------- *)
MaxTelegramUsers == 3

\* The Telegram users who write to a bot that has no user yet.
TelegramUsers == 1 .. MaxTelegramUsers

\* User.query.filter_by(telegram_id=...).first() finds a row.
HasRow(telegram_id) ==
    \E i \in 1 .. Len(users) : users[i].telegram_id = telegram_id

\* Faulty variant of get_or_create_user: is_admin is set on every new row.
get_or_create_user_all_admins(telegram_id) ==
    IF HasRow(telegram_id)
    THEN UNCHANGED users
    ELSE users' = Append(users, [telegram_id |-> telegram_id, is_admin |-> TRUE])

\* SecureDealzBot.get_or_create_user: a user without a row gets one, with
\* is_admin exactly when no row holds is_admin; the coroutine has no await,
\* so look-up, count and commit are one step.
get_or_create_user(telegram_id) ==
    IF HasRow(telegram_id)
    THEN UNCHANGED users
    ELSE users' = Append(users, [telegram_id |-> telegram_id,
                                 is_admin |-> ~admin_exists])

\* SecureDealzBot.is_admin, the auto-grant: when the caller has a row and no
\* row holds is_admin, the caller's row is given it; no await either.
is_admin_auto_grant(user_id) ==
    IF HasRow(user_id) /\ ~admin_exists
    THEN users' = [i \in 1 .. Len(users) |->
                        IF users[i].telegram_id = user_id
                        THEN [users[i] EXCEPT !.is_admin = TRUE]
                        ELSE users[i]]
    ELSE UNCHANGED users

\* An update of a Telegram user ("start"), and the position of its handler
\* between get_or_create_user and is_admin ("is_admin").
AdminUpdates ==
    {Update(k, t, 0, 0, "") : k \in {"start", "is_admin"}, t \in TelegramUsers}

InitAdmin ==
    /\ balance = [u \in Users |-> 0]
    /\ escrowed = [u \in Users |-> 0]
    /\ deals = << >>
    /\ withdrawals = << >>
    /\ transactions = EmptyBag
    /\ user_states = [u \in Users |-> NoState]
    /\ inflight = EmptyBag
    /\ users = << >>

ScheduleStart == \E u \in AdminUpdates :
    /\ u.data = "start"
    /\ BagCardinality(inflight) < MaxInflight
    /\ UNCHANGED users
    /\ inflight' = inflight (+) SetToBag({u})
    /\ UNCHANGED <<balance, escrowed, deals, withdrawals, transactions, user_states>>

\* start / button_handler / message_handler, the first call of the handler.
GetOrCreateUser == \E u \in AdminUpdates :
    /\ u.data = "start"
    /\ BagIn(u, inflight)
    /\ get_or_create_user(u.from_user)
    /\ inflight' = (inflight (-) SetToBag({u}))
                        (+) SetToBag({Update("is_admin", u.from_user, 0, 0, "")})
    /\ no_effect

\* The call of is_admin that start and the admin branches make later.
IsAdminCall == \E u \in AdminUpdates :
    /\ u.data = "is_admin"
    /\ BagIn(u, inflight)
    /\ is_admin_auto_grant(u.from_user)
    /\ inflight' = inflight (-) SetToBag({u})
    /\ no_effect

AdminNext ==
    \/ ScheduleStart
    \/ GetOrCreateUser
    \/ IsAdminCall

SpecAdmin == InitAdmin /\ [][AdminNext]_vars

(* --------------------- one prompt, many answers --------------------- *)
MaxReservations == 2

PromptUpdates == {u \in Updates : u.data \in {"request_withdrawal", "message"}}

SchedulePrompt == \E u \in PromptUpdates : Webhook(u)

\* message_handler on a text in flight; a reservation needs room for its
\* row in a table of MaxReservations rows.
PromptMessage == \E u \in PromptUpdates :
    /\ u.data = "message"
    /\ (ReachesLock(u) /\ ~(balance[u.from_user] < user_states[u.from_user].amount))
            => Len(withdrawals) < MaxReservations
    /\ Taken(u)
    /\ message_handler(u.from_user, TextOf(u))

\* Deposits and the withdrawal conversation, with room for a second
\* reservation and every text in flight as often as the loop has room.
PromptNext ==
    \/ SchedulePrompt
    \/ ApproveDeposit
    \/ LoopRequestWithdrawal
    \/ PromptMessage

SpecPrompt == Init /\ [][PromptNext]_vars

(* ---------------- the entry points to a resolution ------------------ *)
\* What int() makes of a deal token, eight characters drawn from A-Z and
\* 0-9 by generate_deal_id: ValueError for a token with a letter, else the
\* number its digits spell, which may be the primary key of a deal.
TokenReadings ==
    {[kind |-> "letters", v |-> 0]}
    \cup {[kind |-> "digits", v |-> n] : n \in DealIds \cup {12345678}}

\* The callback of the Review Case button of the dispute alert of deal d,
\* admin_dispute_<deal.deal_id>, with the reading of the token it carries,
\* and of the Resolve Next Dispute button, resolve_dispute_<deal.id>, whose
\* number is the primary key.
EntryUpdates ==
    {Update("admin_dispute", Admin, d, r.v, r.kind) : d \in DealIds, r \in TokenReadings}
    \cup {Update("resolve_dispute", Admin, d, d, "digits") : d \in DealIds}

\* The resolution menu of deal d on the admin's screen, its three buttons
\* carrying resolve_..._<deal.id>.
ResolutionMenu(d) == Update("resolution_menu", Admin, d, 0, "")

\* handle_dispute_resolution(query, dispute_id): db.session.get(Deal,
\* int(dispute_id)); the menu is built for that row when it is disputed,
\* "Dispute Not Found" or, on ValueError, "System Error" otherwise.
handle_dispute_resolution(reading) ==
    IF reading.kind = "digits" /\ DealExists(reading.v)
            /\ deals[reading.v].status = "disputed"
    THEN {ResolutionMenu(reading.v)}
    ELSE {}

\* dispute_deal_prompt sends the alert with Review Case when the dispute is
\* opened; show_admin_disputes offers Resolve Next Dispute for a disputed
\* deal.  The admin presses either while the deal is disputed.
PressEntry == \E u \in EntryUpdates :
    /\ BagCardinality(inflight) < MaxInflight
    /\ DealExists(u.a) /\ deals[u.a].status = "disputed"
    /\ UNCHANGED users
    /\ inflight' = inflight (+) SetToBag({u})
    /\ UNCHANGED <<balance, escrowed, deals, withdrawals, transactions, user_states>>

\* button_handler: admin_ goes to handle_admin_actions, whose dispute_
\* branch passes the token on; resolve_dispute_ goes to
\* handle_all_dispute_actions, which passes the primary key on.
HandleEntry == \E u \in EntryUpdates :
    /\ BagIn(u, inflight)
    /\ UNCHANGED users
    /\ inflight' = (inflight (-) SetToBag({u}))
                        (+) SetToBag(handle_dispute_resolution([kind |-> u.c, v |-> u.b]))
    /\ no_effect

\* The admin presses a button of a menu on the screen.
ResolveFromMenu == \E d \in DealIds, k \in ResolveButtons :
    /\ BagIn(ResolutionMenu(d), inflight)
    /\ UNCHANGED users
    /\ inflight' = inflight (-) SetToBag({ResolutionMenu(d)})
    /\ handle(Update(k, Admin, d, 0, ""))

EntryNext ==
    \/ CreateDeal
    \/ ApproveDeposit
    \/ AcceptDeal
    \/ MarkDelivered
    \/ OpenDispute
    \/ PressEntry
    \/ HandleEntry
    \/ ResolveFromMenu

SpecEntry == Init /\ [][EntryNext]_vars

(* ------------------ handlers split at their awaits ------------------ *)
\* The handler of update u suspended at an await that precedes its database
\* section: query.answer() and get_or_create_user in button_handler, and
\* is_admin for the admin branches.
AtSection(u) == [u EXCEPT !.data = "section:" \o u.data]

\* button_handler up to the call of the handler: the loop may run other
\* handlers before this one goes on.
EnterHandler == \E u \in LoopUpdates :
    /\ BagIn(u, inflight)
    /\ UNCHANGED users
    /\ inflight' = (inflight (-) SetToBag({u})) (+) SetToBag({AtSection(u)})
    /\ no_effect

\* The database section of the handler, from its first query to its
\* commit: no await on the success path, one step of the loop.
GuardAndCommit == \E u \in LoopUpdates :
    /\ BagIn(AtSection(u), inflight)
    /\ UNCHANGED users
    /\ inflight' = inflight (-) SetToBag({AtSection(u)})
    /\ handle(u)

AwaitNext ==
    \/ Schedule
    \/ CreateDeal
    \/ EnterHandler
    \/ GuardAndCommit

SpecAwait == Init /\ [][AwaitNext]_vars

(* ============================ properties ============================ *)
\* The sum of f over the finite set S.
RECURSIVE Sum(_, _)
Sum(f, S) ==
    IF S = {} THEN 0
    ELSE LET x == CHOOSE y \in S : TRUE IN f[x] + Sum(f, S \ {x})

\* The rows of the transactions table of one type, each with its count.
RowsOfType(transaction_type) ==
    {t \in BagToSet(transactions) : t.transaction_type = transaction_type}

\* The update u is taken off the event loop in this step: its handler runs.
Handled(u) == BagIn(u, inflight) /\ inflight' = inflight (-) SetToBag({u})

InFlight(u) == BagIn(u, inflight)

FeesRetained ==
    LET rows == RowsOfType("escrow_funded") IN
    Sum([t \in rows |-> transactions[t] * (t.amount - deals[t.deal_id].amount)], rows)

ConfirmedWithdrawals ==
    LET done == {w \in 1 .. Len(withdrawals) : withdrawals[w].status = "completed"} IN
    Sum([w \in done |-> withdrawals[w].amount], done)

ApprovedDeposits ==
    LET rows == RowsOfType("deposit") IN
    Sum([t \in rows |-> transactions[t] * t.amount], rows)

Funds ==
    Sum([u \in Users |-> balance[u] + escrowed[u]], Users)
        + FeesRetained + ConfirmedWithdrawals - ApprovedDeposits

\* C2: every operation conserves funds: the sum over all accounts of
\* balance + escrowed, plus the fees retained at funding, plus the confirmed
\* withdrawals, minus the approved deposits, is the same before and after
\* every step.
C2_Conservation == [][Funds' = Funds]_vars

(* ------------------------------- C3 --------------------------------- *)
\* What the three steps of the path accept -> markDelivered -> releasePayment
\* do to the accounts of the buyer b and the seller s of a deal of the given
\* amount, when the update u takes the deal from one status to the next.
PathStep(u, b, s, amount) ==
    LET before == deals[u.a].status
        after == deals'[u.a].status
    IN
    /\ (u.data = "accept_deal" /\ before = "pending" /\ after = "funded") =>
            /\ balance'[b] = balance[b] - (amount + calculate_fee(amount))
            /\ escrowed'[b] = escrowed[b] + amount
            /\ balance'[s] = balance[s]
    /\ (u.data = "deliver_deal" /\ before = "funded" /\ after = "delivered") =>
            /\ balance' = balance
            /\ escrowed' = escrowed
    /\ (u.data = "release_payment" /\ before = "delivered" /\ after = "completed") =>
            /\ escrowed'[b] = escrowed[b] - amount
            /\ balance'[s] = balance[s] + amount
            /\ balance'[b] = balance[b]

\* C3 as stated, for every deal: the accept debits the buyer amount + fee and
\* escrows the amount, the delivery moves nothing, the release takes the
\* amount out of the buyer's escrow and credits it to the seller, so that over
\* the path the buyer has paid amount + fee, the seller has received amount
\* and the buyer's escrowed is back where it was.
C3_PathAnyDeal ==
    [][\A u \in LoopUpdates :
        (Handled(u) /\ u.data \in DealButtons /\ DealExists(u.a)) =>
            PathStep(u, deals[u.a].buyer_id, deals[u.a].seller_id, deals[u.a].amount)]_vars

\* C3 for a deal whose buyer and seller are two different accounts.
C3_PathTwoAccounts ==
    [][\A u \in LoopUpdates :
        (Handled(u) /\ u.data \in DealButtons /\ DealExists(u.a)
            /\ deals[u.a].buyer_id # deals[u.a].seller_id) =>
            PathStep(u, deals[u.a].buyer_id, deals[u.a].seller_id, deals[u.a].amount)]_vars

\* A $100 deal between two accounts has gone the whole path: the buyer, who
\* had $105, is left with nothing in balance or escrow, the seller has $100.
C3_Witness ==
    \E d \in 1 .. Len(deals) :
        /\ deals[d].status = "completed"
        /\ deals[d].amount = 100 * Dollar
        /\ deals[d].buyer_id # deals[d].seller_id
        /\ balance[deals[d].seller_id] = 100 * Dollar
        /\ balance[deals[d].buyer_id] = 0
        /\ escrowed[deals[d].buyer_id] = 0
        /\ BagCardinality(transactions) = 2

(* ------------------------------- C4 --------------------------------- *)
\* The escrow_funded rows recorded for one deal.
FundedRows(deal_id) ==
    LET rows == {t \in RowsOfType("escrow_funded") : t.deal_id = deal_id} IN
    Sum([t \in rows |-> transactions[t]], rows)

\* C4: of two acceptances of one pending deal that are in flight on the
\* event loop together, one funds the deal and records its one escrow_funded
\* row; the one handled second finds the deal no longer pending and changes
\* no account, no deal and no row.
C4_OneFunding ==
    [][\A u \in LoopUpdates :
        (Handled(u) /\ u.data = "accept_deal" /\ DealExists(u.a)) =>
            /\ deals[u.a].status # "pending" =>
                    UNCHANGED <<balance, escrowed, deals, withdrawals, transactions>>
            /\ deals'[u.a].status = "funded" /\ deals[u.a].status = "pending" =>
                    FundedRows(u.a) = 0
            /\ FundedRows(u.a)' <= 1]_vars

\* The deal has been funded by one acceptance while a second acceptance of
\* it, scheduled when it was still pending, is waiting on the loop.
C4_Witness ==
    \E u \in LoopUpdates :
        /\ u.data = "accept_deal" /\ InFlight(u) /\ DealExists(u.a)
        /\ deals[u.a].status = "funded"
        /\ FundedRows(u.a) = 1
        /\ balance[deals[u.a].buyer_id] >= deals[u.a].amount + calculate_fee(deals[u.a].amount)

(* ------------------------------- C5 --------------------------------- *)
\* The deposit rows recorded for one (account, amount, kind).
DepositRows(user_id, amount, crypto) ==
    LET rows == {t \in RowsOfType("deposit") :
                    t.user_id = user_id /\ t.amount = amount /\ t.description = crypto}
    IN Sum([t \in rows |-> transactions[t]], rows)

AcceptEffect(u, seller_frame) ==
    LET deal == deals[u.a]
        b == deal.buyer_id
        total == deal.amount + calculate_fee(deal.amount)
    IN
    (/\ Handled(u) /\ u.data = "accept_deal" /\ DealExists(u.a)
     /\ u.from_user = deal.seller_id
     /\ deal.status = "pending"
     /\ balance[b] >= total) =>
        /\ deals'[u.a].status = "funded"
        /\ balance'[b] = balance[b] - total
        /\ escrowed'[b] = escrowed[b] + deal.amount
        /\ seller_frame
        /\ BagCardinality(transactions') = BagCardinality(transactions) + 1
        /\ FundedRows(u.a)' = FundedRows(u.a) + 1

SellerUnchanged(u) ==
    /\ balance'[deals[u.a].seller_id] = balance[deals[u.a].seller_id]
    /\ escrowed'[deals[u.a].seller_id] = escrowed[deals[u.a].seller_id]

\* C7 as stated: the deal becomes funded, the buyer's balance falls by
\* amount + fee, the buyer's escrowed rises by amount, the seller's balance
\* and escrowed are unchanged, and one Transaction row is recorded.
C7_AcceptAnyDeal ==
    [][\A u \in LoopUpdates : AcceptEffect(u, SellerUnchanged(u))]_vars

\* C7 with the seller's account unchanged when it is not also the buyer's.
C7_AcceptFunds ==
    [][\A u \in LoopUpdates :
        AcceptEffect(u, deals[u.a].seller_id # deals[u.a].buyer_id => SellerUnchanged(u))]_vars

\* The example of the claim: a $50 deal accepted against a balance of $60
\* leaves balance $5 and escrowed $50, the seller's account empty.
C7_Witness ==
    \E d \in 1 .. Len(deals) :
        /\ deals[d].status = "funded"
        /\ deals[d].amount = 50 * Dollar
        /\ deals[d].buyer_id # deals[d].seller_id
        /\ balance[deals[d].buyer_id] = 5 * Dollar
        /\ escrowed[deals[d].buyer_id] = 50 * Dollar
        /\ balance[deals[d].seller_id] = 0 /\ escrowed[deals[d].seller_id] = 0
        /\ FundedRows(d) = 1
        /\ BagCardinality(transactions) = 2

(* ------------------------------- C10 -------------------------------- *)
\* C10: the split resolution of a disputed deal between two accounts
\* refunds half of the amount to the buyer's balance, credits the other
\* half to the seller's balance, takes the whole amount out of the buyer's
\* escrowed and completes the deal.
C10_Split ==
    [][\A u \in LoopUpdates :
        LET deal == deals[u.a]
            half == deal.amount \div 2
        IN
        (/\ Handled(u) /\ u.data = "resolve_split" /\ is_admin(u.from_user)
         /\ DealExists(u.a) /\ deal.status = "disputed"
         /\ deal.buyer_id # deal.seller_id) =>
            /\ deals'[u.a].status = "completed"
            /\ balance'[deal.buyer_id] = balance[deal.buyer_id] + half
            /\ balance'[deal.seller_id] = balance[deal.seller_id] + half
            /\ escrowed'[deal.buyer_id] = escrowed[deal.buyer_id] - deal.amount]_vars

(* ------------------------------- C6 --------------------------------- *)
Settled(withdrawal_id) ==
    /\ WithdrawalExists(withdrawal_id)
    /\ withdrawals[withdrawal_id].status \in {"completed", "rejected"}

\* C6: a confirm_withdrawal or reject_withdrawal handled when the request is
\* already completed or rejected changes nothing: not the request, not any
\* account, not the Transaction rows.
C6_SettledIsFinal ==
    [][\A u \in PayoutUpdates :
        (Handled(u) /\ u.data \in {"confirm_withdrawal", "reject_withdrawal"}
            /\ Settled(u.a)) =>
            UNCHANGED <<balance, escrowed, deals, withdrawals, transactions, user_states>>]_vars

\* The request has been paid out, the account still holds the escrow of a
\* funded deal that would cover the amount once more, and a rejection of
\* the same request, called while it was pending, is waiting on the loop.
C6_Witness ==
    \E u \in PayoutUpdates :
        /\ u.data = "reject_withdrawal" /\ InFlight(u)
        /\ WithdrawalExists(u.a)
        /\ withdrawals[u.a].status = "completed"
        /\ escrowed[withdrawals[u.a].user_id] >= withdrawals[u.a].amount

C9_Confirm ==
    [][\A u \in PayoutUpdates :
        LET withdrawal == withdrawals[u.a] IN
        (/\ Handled(u) /\ u.data = "confirm_withdrawal" /\ WithdrawalExists(u.a)
         /\ withdrawal.status = "pending"
         /\ escrowed[withdrawal.user_id] >= withdrawal.amount) =>
            /\ escrowed' = [escrowed EXCEPT ![withdrawal.user_id] = @ - withdrawal.amount]
            /\ balance' = balance
            /\ withdrawals' = [withdrawals EXCEPT ![u.a].status = "completed"]
            /\ transactions' = transactions (+) SetToBag({
                    [user_id |-> withdrawal.user_id, deal_id |-> 0,
                     amount |-> 0 - withdrawal.amount, transaction_type |-> "withdrawal",
                     status |-> "completed", description |-> "none"]})]_vars

\* The whole balance was requested and paid out: balance and escrowed are
\* both zero, the request is completed and its row carries minus the amount.
C9_Witness ==
    \E w \in 1 .. Len(withdrawals) :
        /\ withdrawals[w].status = "completed"
        /\ withdrawals[w].amount > 0
        /\ balance[withdrawals[w].user_id] = 0
        /\ escrowed[withdrawals[w].user_id] = 0
        /\ \E t \in RowsOfType("withdrawal") :
                /\ t.amount = 0 - withdrawals[w].amount
                /\ t.user_id = withdrawals[w].user_id
                /\ transactions[t] = 1

(* ------------------------------- C11 -------------------------------- *)
\* C11: resolving a disputed deal between two accounts in favour of the
\* buyer takes the amount out of the buyer's escrowed and puts it on the
\* buyer's balance, leaves the seller's account alone and completes the deal.
C11_FavorBuyer ==
    [][\A u \in LoopUpdates :
        LET deal == deals[u.a] IN
        (/\ Handled(u) /\ u.data = "resolve_favor_buyer" /\ is_admin(u.from_user)
         /\ DealExists(u.a) /\ deal.status = "disputed"
         /\ deal.buyer_id # deal.seller_id) =>
            /\ deals'[u.a].status = "completed"
            /\ escrowed'[deal.buyer_id] = escrowed[deal.buyer_id] - deal.amount
            /\ balance'[deal.buyer_id] = balance[deal.buyer_id] + deal.amount
            /\ balance'[deal.seller_id] = balance[deal.seller_id]
            /\ escrowed'[deal.seller_id] = escrowed[deal.seller_id]]_vars

(* ------------------------------- C12 -------------------------------- *)
\* C12: resolving a disputed deal between two accounts in favour of the
\* seller takes the amount out of the buyer's escrowed, credits it to the
\* seller's balance and completes the deal.
C12_FavorSeller ==
    [][\A u \in LoopUpdates :
        LET deal == deals[u.a] IN
        (/\ Handled(u) /\ u.data = "resolve_favor_seller" /\ is_admin(u.from_user)
         /\ DealExists(u.a) /\ deal.status = "disputed"
         /\ deal.buyer_id # deal.seller_id) =>
            /\ deals'[u.a].status = "completed"
            /\ escrowed'[deal.buyer_id] = escrowed[deal.buyer_id] - deal.amount
            /\ balance'[deal.seller_id] = balance[deal.seller_id] + deal.amount]_vars

(* ------------------------------- C13 -------------------------------- *)
\* The fee as the specification writes it: 5.00 under 100, else 5%.
SpecFeeOf(amount) == IF amount < 100 * Dollar THEN 5 * Dollar ELSE (amount * 5) \div 100

\* C13: for every whole-cent amount of the sweep calculate_fee is 5.00 under
\* 100 and 5% from 100 on, with fee(99.99) = 5.00, fee(100.00) = 5.00 and
\* fee(1000.00) = 50.00; the total a deal shows at creation is amount + fee,
\* and the row written when the deal is accepted records that same total,
\* which is what the buyer's balance was debited.
C13_Fee ==
    /\ \A amount \in FeeAmounts :
            /\ calculate_fee(amount) = SpecFeeOf(amount)
            /\ displayed_total(amount) = amount + SpecFeeOf(amount)
    /\ calculate_fee(9999 * Cent) = 5 * Dollar
    /\ calculate_fee(100 * Dollar) = 5 * Dollar
    /\ calculate_fee(1000 * Dollar) = 50 * Dollar
    /\ \A t \in RowsOfType("escrow_funded") :
            /\ t.amount = displayed_total(deals[t.deal_id].amount)
            /\ t.amount = deals[t.deal_id].amount + SpecFeeOf(deals[t.deal_id].amount)
    /\ \A u \in Customers :
            LET rows == {t \in RowsOfType("escrow_funded") : t.user_id = u} IN
            balance[u] = FeeFunds - Sum([t \in rows |-> transactions[t] * t.amount], rows)

\* A deal of $99.99 has been accepted: $104.99 were debited.
C13_Witness ==
    \E t \in RowsOfType("escrow_funded") :
        /\ deals[t.deal_id].amount = 9999 * Cent
        /\ deals[t.deal_id].status = "funded"
        /\ t.amount = 10499 * Cent
        /\ balance[t.user_id] = FeeFunds - 10499 * Cent
        /\ escrowed[t.user_id] = 9999 * Cent

(* ------------------------------- C14 -------------------------------- *)
DealStatuses == {"pending", "funded", "delivered", "completed", "disputed", "cancelled"}

\* The edges of the deal lifecycle.
DealEdges ==
    {<<"pending", "funded">>, <<"pending", "cancelled">>, <<"funded", "delivered">>,
     <<"delivered", "completed">>, <<"delivered", "disputed">>, <<"disputed", "completed">>}

\* C14: a deal is created pending, its status is always one of the six
\* (never 'accepted'), every change of status follows one of the six edges,
\* and no step changes the status of a completed or cancelled deal.
C14_StatusEdges ==
    [][/\ Len(deals') >= Len(deals)
       /\ \A d \in 1 .. Len(deals') :
            /\ deals'[d].status \in DealStatuses
            /\ d > Len(deals) => deals'[d].status = "pending"
            /\ (d <= Len(deals) /\ deals'[d].status # deals[d].status) =>
                    <<deals[d].status, deals'[d].status>> \in DealEdges
            /\ (d <= Len(deals) /\ deals[d].status \in {"completed", "cancelled"}) =>
                    deals'[d] = deals[d]]_vars

\* One deal was resolved after a dispute and is completed, another was
\* declined and is cancelled.
C14_Witness ==
    /\ Len(deals) = 2
    /\ deals[1].status = "completed" /\ deals[2].status = "cancelled"
    /\ escrowed[deals[1].buyer_id] = deals[1].amount
    /\ BagCardinality(transactions) = 2

(* ------------------------------- C15 -------------------------------- *)
\* What is reserved against an account: the amounts of its deals as buyer
\* that are funded, delivered or disputed, and of its pending withdrawals.
Reserved(user_id) ==
    LET open == {d \in 1 .. Len(deals) :
                    /\ deals[d].buyer_id = user_id
                    /\ deals[d].status \in {"funded", "delivered", "disputed"}}
        pending == {w \in 1 .. Len(withdrawals) :
                    /\ withdrawals[w].user_id = user_id
                    /\ withdrawals[w].status = "pending"}
    IN  Sum([d \in open |-> deals[d].amount], open)
            + Sum([w \in pending |-> withdrawals[w].amount], pending)

\* C15: in every reachable state the escrowed amount of each account is
\* at most what is reserved against it by its open deals as buyer and its
\* pending withdrawal requests; nothing of a completed deal stays escrowed.
C15_EscrowedWithinReserved ==
    \A u \in Users : escrowed[u] <= Reserved(u)

(* ------------------------------- C16 -------------------------------- *)
\* C16: a ledger operation is all or nothing.  Whenever the handler of the
\* deposit button runs, either balances, escrowed amounts, deals, requests
\* and the Transaction log are all as before, or the balance is credited
\* and the deposit row is stored in the same step; so no amount is credited
\* to a user more often than approve can store its row, once.
C16_AllOrNothing ==
    [][\A u \in FaultUpdates :
        (Handled(u) /\ u.data = "admin_approve_deposit") =>
            \/ UNCHANGED <<balance, escrowed, deals, withdrawals, transactions>>
            \/ /\ balance' = [balance EXCEPT ![u.a] = @ + u.b]
               /\ transactions' = AddTxn(Txn(u.a, 0, u.b, "deposit", u.c))
               /\ UNCHANGED <<escrowed, deals, withdrawals>>]_vars

(* ------------------------------- C17 -------------------------------- *)
\* The caller of the update has the role its button asks for: the seller of
\* the deal for accept, decline and deliver, the buyer for release and
\* dispute, an admin for the resolutions and the deposit approval.
HasRole(u) ==
    CASE u.data \in {"accept_deal", "decline_deal", "deliver_deal"} ->
            DealExists(u.a) /\ deals[u.a].seller_id = u.from_user
      [] u.data \in {"release_payment", "dispute_deal"} ->
            DealExists(u.a) /\ deals[u.a].buyer_id = u.from_user
      [] OTHER -> is_admin(u.from_user)

\* C17: when a deal button, a resolution or a deposit approval is handled
\* for a user without the role, the deals, all accounts and the Transaction
\* log are unchanged; a change is made only for a caller with the role.
C17_RoleChecks ==
    [][\A u \in LoopUpdates :
        (Handled(u) /\ ~HasRole(u)) =>
            UNCHANGED <<balance, escrowed, deals, withdrawals, transactions>>]_vars

\* A disputed deal between two users, and the buyer, who is no admin, has
\* pressed the button that resolves it in the buyer's favour.
C17_Witness ==
    \E u \in LoopUpdates :
        /\ InFlight(u) /\ u.data = "resolve_favor_buyer"
        /\ DealExists(u.a) /\ deals[u.a].status = "disputed"
        /\ deals[u.a].buyer_id = u.from_user
        /\ deals[u.a].seller_id # u.from_user
        /\ ~is_admin(u.from_user)

(* ------------------------------- C18 -------------------------------- *)
\* C18: every step that changes the balance or the escrowed amount of an
\* account appends exactly one Transaction row in the same step.
C18_OneRowPerMutation ==
    [][(balance' # balance \/ escrowed' # escrowed) =>
            BagCardinality(transactions') = BagCardinality(transactions) + 1]_vars

(* ------------------------------- C20 -------------------------------- *)
\* C20: a creating operation succeeds whatever id the generator returns
\* first.  Whenever a valid address is handled for a user whose state
\* awaits it, for an amount the balance covers, a request is stored.
C20_CreationSucceeds ==
    [][\A u \in FaultUpdates :
        LET st == user_states[u.from_user] IN
        (/\ Handled(u) /\ u.data = "message"
         /\ st.action = "awaiting_withdrawal_address"
         /\ valid_address(TextOf(u))
         /\ balance[u.from_user] >= st.amount) =>
            /\ Len(withdrawals') = Len(withdrawals) + 1
            /\ withdrawals'[Len(withdrawals')].status = "pending"]_vars

(* ------------------------------- C19 -------------------------------- *)
\* C19: no operation blocks for ever.  There is no reachable state in which
\* one handler is suspended on a network call with a users row locked while
\* another handler waits for that row on the thread of the event loop.
C19_NoBlockedLoop ==
    ~ \E from_user \in Users, user_id \in Users :
        /\ BagIn(Suspended(user_id), inflight)
        /\ BagIn(Blocked(from_user, user_id), inflight)

(* ------------------------------- C21 -------------------------------- *)
\* The seller's acceptance of the pending deal u.a is handled in this step.
SellerAccepts(u) ==
    /\ Handled(u) /\ u.data = "accept_deal" /\ DealExists(u.a)
    /\ deals[u.a].seller_id = u.from_user
    /\ deals[u.a].status = "pending"

\* C21: when the seller accepts a pending deal and the buyer's balance is
\* below amount + fee, the deal stays pending and no balance, escrowed
\* amount, request or Transaction row changes; an acceptance of a pending
\* deal handled when the balance covers amount + fee funds it, whatever was
\* tried before.
C21_ShortBalance ==
    [][\A u \in LoopUpdates :
        SellerAccepts(u) =>
            LET total_required == deals[u.a].amount + calculate_fee(deals[u.a].amount) IN
            /\ balance[deals[u.a].buyer_id] < total_required =>
                    /\ deals'[u.a].status = "pending"
                    /\ UNCHANGED <<balance, escrowed, deals, withdrawals, transactions>>
            /\ balance[deals[u.a].buyer_id] >= total_required =>
                    /\ deals'[u.a].status = "funded"
                    /\ FundedRows(u.a)' = 1]_vars

\* The seller's acceptance of a pending $100 deal is on the loop and the
\* buyer, credited $60, cannot pay the $105.
C21_Witness ==
    \E u \in LoopUpdates :
        /\ InFlight(u) /\ u.data = "accept_deal" /\ DealExists(u.a)
        /\ deals[u.a].seller_id = u.from_user
        /\ deals[u.a].status = "pending"
        /\ deals[u.a].amount = 100 * Dollar
        /\ balance[deals[u.a].buyer_id] = 60 * Dollar
        /\ DepositRows(deals[u.a].buyer_id, 60 * Dollar, "usdt") = 1

(* ------------------------------- C22 -------------------------------- *)
\* The deposits recorded for an account.
DepositsOf(user_id) ==
    LET rows == {t \in RowsOfType("deposit") : t.user_id = user_id} IN
    Sum([t \in rows |-> transactions[t] * t.amount], rows)

\* An account that never bought a deal and whose requests were all rejected
\* holds its deposits in its balance and nothing in escrowed.
RoundTrip ==
    \A user_id \in Users :
        (/\ \A d \in 1 .. Len(deals) : deals[d].buyer_id # user_id
         /\ \A w \in 1 .. Len(withdrawals) :
                withdrawals[w].user_id = user_id => withdrawals[w].status = "rejected")
        => balance[user_id] = DepositsOf(user_id) /\ escrowed[user_id] = 0

Credited == Sum([u \in Users |-> balance'[u] - balance[u]], Users)

\* C23: a resolution handled for a deal that is not disputed, whether it
\* never was or was resolved by a call handled before, changes no deal, no
\* account and no row; one handled for a disputed deal completes it, so it
\* is the only one to take effect, and credits at most the deal's amount.
C23_ResolveOnce ==
    [][\A u \in LoopUpdates :
        (Handled(u) /\ u.data \in ResolveButtons) =>
            IF DealExists(u.a) /\ deals[u.a].status = "disputed" /\ is_admin(u.from_user)
            THEN /\ deals'[u.a].status = "completed"
                 /\ Credited <= deals[u.a].amount
            ELSE UNCHANGED <<balance, escrowed, deals, withdrawals, transactions>>]_vars

\* A disputed deal was resolved with a split, and a resolution in favour of
\* the buyer, pressed while the deal was still disputed, waits on the loop.
C23_Witness ==
    \E u \in LoopUpdates :
        /\ InFlight(u) /\ u.data = "resolve_favor_buyer" /\ is_admin(u.from_user)
        /\ DealExists(u.a) /\ deals[u.a].status = "completed"
        /\ deals[u.a].amount = 50 * Dollar
        /\ balance[deals[u.a].buyer_id] = 30 * Dollar
        /\ escrowed[deals[u.a].buyer_id] = 50 * Dollar

(* ------------------------------- C24 -------------------------------- *)
\* The status a deal button starts from.
StartsFrom(data) ==
    CASE data \in {"accept_deal", "decline_deal"} -> "pending"
      [] data = "deliver_deal" -> "funded"
      [] OTHER -> "delivered"

\* The caller may press the button and, for an acceptance, the buyer can pay.
CanWin(u) ==
    /\ deals[u.a].status = StartsFrom(u.data)
    /\ IF u.data \in {"accept_deal", "decline_deal"}
       THEN deals[u.a].seller_id = u.from_user
       ELSE deals[u.a].buyer_id = u.from_user
    /\ u.data = "accept_deal" =>
            balance[deals[u.a].buyer_id] >= deals[u.a].amount + calculate_fee(deals[u.a].amount)

\* The amounts of the completed deals an account is a party of.
CompletedWith(user_id) ==
    LET done == {d \in 1 .. Len(deals) :
                    /\ deals[d].status = "completed"
                    /\ (deals[d].seller_id = user_id \/ deals[d].buyer_id = user_id)}
    IN Sum([d \in done |-> deals[d].amount], done)

\* No account holds more than its deposits and the amounts of its completed
\* deals: nothing was released for a deal that is disputed or cancelled.
NothingReleasedEarly ==
    /\ \A u \in Users : balance[u] + escrowed[u] <= DepositsOf(u) + CompletedWith(u)
    /\ \A d \in 1 .. Len(deals) : deals[d].status = "cancelled" => FundedRows(d) = 0

\* C24: of the deal buttons that compete from one status (accept and decline
\* from pending; release and dispute, or two releases, from delivered), the
\* first one handled that can take effect moves the deal out of that status
\* and applies its ledger effect; every one handled after it finds the
\* status changed and changes nothing.  No funds are released for a deal
\* that is disputed or cancelled.
C24_OneWinner ==
    [][/\ \A u \in LoopUpdates :
            (/\ Handled(u) /\ DealExists(u.a)
             /\ u.data \in {"accept_deal", "decline_deal", "release_payment", "dispute_deal"}) =>
                /\ deals[u.a].status # StartsFrom(u.data) =>
                        UNCHANGED <<balance, escrowed, deals, withdrawals, transactions>>
                /\ CanWin(u) => deals'[u.a].status # StartsFrom(u.data)
                /\ (CanWin(u) /\ u.data = "release_payment") =>
                        /\ Credited = deals[u.a].amount
                        /\ escrowed'[deals[u.a].buyer_id] =
                                escrowed[deals[u.a].buyer_id] - deals[u.a].amount
                /\ (CanWin(u) /\ u.data \in {"decline_deal", "dispute_deal"}) =>
                        UNCHANGED <<balance, escrowed, transactions>>
       /\ NothingReleasedEarly']_vars

\* The buyer pressed release and dispute on a delivered deal; the release
\* was handled first and paid the seller, the dispute waits on the loop.
C24_Witness ==
    \E u \in LoopUpdates :
        /\ InFlight(u) /\ u.data = "dispute_deal" /\ DealExists(u.a)
        /\ deals[u.a].buyer_id = u.from_user
        /\ deals[u.a].seller_id # u.from_user
        /\ deals[u.a].status = "completed"
        /\ balance[deals[u.a].seller_id] = deals[u.a].amount
        /\ escrowed[deals[u.a].buyer_id] = 0

(* ------------------------------- C25 -------------------------------- *)
\* C25: the key of a deposit is (account, amount, kind).  An approval by the
\* admin is turned down exactly when a deposit row of the same account,
\* amount and kind exists; otherwise, whatever rows of another kind exist,
\* it credits the amount and records its row.
C25_KeyHasKind ==
    [][\A u \in LoopUpdates :
        (Handled(u) /\ u.data = "admin_approve_deposit" /\ is_admin(u.from_user)) =>
            IF DepositRows(u.a, u.b, u.c) >= 1
            THEN UNCHANGED <<balance, escrowed, deals, withdrawals, transactions>>
            ELSE /\ balance' = [balance EXCEPT ![u.a] = @ + u.b]
                 /\ DepositRows(u.a, u.b, u.c)' = 1]_vars

(* ------------------------------- C26 -------------------------------- *)
\* C26: a rejection of a claimed deposit changes no balance, no escrowed
\* amount and no Transaction row; an approval by the admin handled when no
\* deposit row of the account and amount exists credits the amount, whether
\* or not the same claim was rejected before.
C26_RejectIsFrame ==
    [][\A u \in DepositUpdates :
        /\ (Handled(u) /\ u.data = "admin_reject_deposit") =>
                UNCHANGED <<balance, escrowed, deals, withdrawals, transactions>>
        /\ (/\ Handled(u) /\ u.data = "admin_approve_deposit" /\ is_admin(u.from_user)
            /\ ~existing_transaction(u.a, u.b)) =>
                /\ balance' = [balance EXCEPT ![u.a] = @ + u.b]
                /\ DepositRows(u.a, u.b, u.c)' = 1]_vars

\* The admin pressed reject and then approve on the same claim of $60 in
\* USDT; both are on the loop and nothing is credited yet.
C26_Witness ==
    /\ BagIn(Update("admin_reject_deposit", Admin, 2, 60 * Dollar, "usdt"), inflight)
    /\ BagIn(Update("admin_approve_deposit", Admin, 2, 60 * Dollar, "usdt"), inflight)
    /\ balance[2] = 0
    /\ transactions = EmptyBag

(* ------------------------------- C27 -------------------------------- *)
\* The amounts of the disputed deals an account is the buyer of.
DisputedOf(user_id) ==
    LET open == {d \in 1 .. Len(deals) :
                    deals[d].buyer_id = user_id /\ deals[d].status = "disputed"}
    IN Sum([d \in open |-> deals[d].amount], open)

\* C27: a decline, a delivery mark or a dispute that is handled changes at
\* most the status of its deal: every other deal, every balance, every
\* escrowed amount and the Transaction rows are as before.  So a cancelled
\* deal has no funding row, and the amounts of an account's disputed deals
\* are in its escrowed.
C27_StatusOnly ==
    [][/\ \A u \in LoopUpdates :
            (Handled(u) /\ u.data \in {"decline_deal", "deliver_deal", "dispute_deal"}) =>
                /\ UNCHANGED <<balance, escrowed, withdrawals, transactions>>
                /\ Len(deals') = Len(deals)
                /\ \A d \in 1 .. Len(deals) :
                        /\ d # u.a => deals'[d] = deals[d]
                        /\ deals'[d] = [deals[d] EXCEPT !.status = deals'[d].status]
       /\ \A d \in 1 .. Len(deals') : deals'[d].status = "cancelled" => FundedRows(d)' = 0
       /\ \A user_id \in Users : escrowed'[user_id] >= DisputedOf(user_id)']_vars

\* The buyer's $50 deal is disputed and its amount is in the buyer's
\* escrowed; the other deal was declined and has no funding row.
C27_Witness ==
    /\ Len(deals) = 2
    /\ deals[1].status = "disputed" /\ deals[1].amount = 50 * Dollar
    /\ deals[2].status = "cancelled"
    /\ escrowed[deals[1].buyer_id] = 50 * Dollar
    /\ FundedRows(1) = 1 /\ FundedRows(2) = 0
    /\ BagCardinality(transactions) = 2

(* ------------------------------- C28 -------------------------------- *)
\* C28: no handler is ever suspended on a message send with its database
\* transaction open and a users row locked: every send happens after the
\* transaction has ended.
C28_SendAfterCommit ==
    \A user_id \in Users : ~BagIn(Suspended(user_id), inflight)

\* C29: a deal text handled in the deal conversation creates exactly one
\* pending deal with the sender as buyer and the chosen user as seller and
\* moves no funds when its amount is a number from $1 to $50,000; any other
\* text (amount out of bounds, or malformed) stores nothing; and every
\* stored deal has an amount above zero.  The notification record is added
\* in the transaction of the deal and is stored exactly when the deal is.
C29_CreateOrReject ==
    [][\A u \in CreateUpdates : Handled(u) =>
        LET state == user_states[u.from_user]
            in_bounds == /\ u.c = "number"
                         /\ u.a >= MinDealAmount
                         /\ u.a <= MaxDealAmount
        IN  /\ IF state.action = "create_deal" /\ in_bounds
               THEN /\ deals' = Append(deals, [buyer_id |-> u.from_user,
                                               seller_id |-> state.amount,
                                               amount |-> u.a,
                                               status |-> "pending"])
                    /\ UNCHANGED <<balance, escrowed, withdrawals, transactions>>
               ELSE UNCHANGED ledger
            /\ \A d \in 1 .. Len(deals') : Less(0, deals'[d].amount)]_vars

C31_FundedUntilDelivered ==
    [][\A d \in DealIds : (DealExists(d) /\ deals[d].status = "funded") =>
        /\ \/ /\ deals'[d].status = "funded"
              /\ escrowed'[deals[d].buyer_id] >= deals[d].amount
           \/ /\ deals'[d].status = "delivered"
              /\ Handled(Update("deliver_deal", deals[d].seller_id, d, 0, ""))
        /\ \A user_id \in Users :
                Handled(Update("dispute_deal", user_id, d, 0, "")) =>
                    UNCHANGED <<balance, escrowed, deals, withdrawals, transactions>>]_vars

\* The buyer of a funded deal has pressed the Open Dispute button that the
\* deal-details view offers, and the update waits on the loop.
C31_Witness ==
    \E d \in DealIds :
        /\ DealExists(d) /\ deals[d].status = "funded"
        /\ deals[d].buyer_id # deals[d].seller_id
        /\ InFlight(Update("dispute_deal", deals[d].buyer_id, d, 0, ""))
        /\ escrowed[deals[d].buyer_id] = deals[d].amount

(* ------------------------------- C32 -------------------------------- *)
\* C32: with every update entering through button_handler or
\* message_handler, an update whose callback data names confirm_withdrawal
\* or reject_withdrawal changes nothing when it is handled, and a pending
\* withdrawal request stays as it is in every step, with its amount inside
\* the escrowed amount of its account.
C32_PendingForever ==
    [][/\ \A u \in PayoutUpdates :
            (Handled(u) /\ u.data \in {"confirm_withdrawal", "reject_withdrawal"}) =>
                UNCHANGED <<balance, escrowed, deals, withdrawals, transactions>>
       /\ \A w \in WithdrawalIds :
            (WithdrawalExists(w) /\ withdrawals[w].status = "pending") =>
                /\ withdrawals'[w] = withdrawals[w]
                /\ escrowed'[withdrawals[w].user_id] >= withdrawals[w].amount]_vars

\* A request is pending and callback data naming its confirmation waits on
\* the loop.
C32_Witness ==
    \E w \in WithdrawalIds :
        /\ WithdrawalExists(w) /\ withdrawals[w].status = "pending"
        /\ InFlight(Update("confirm_withdrawal", Admin, w, 0, ""))
        /\ escrowed[withdrawals[w].user_id] >= withdrawals[w].amount

(* ------------------------------- C33 -------------------------------- *)
\* The sums of distinct deposit amounts.
DistinctDeposits ==
    {Sum([n \in S |-> n], S) : S \in SUBSET DepositAmounts}

\* C33: an account is credited each amount by deposit at most once.  In the
\* runs with failing commits money enters an account only through approved
\* deposits and moves only between its balance and its escrowed amount, so
\* what the account holds is what deposits credited to it: a sum of
\* distinct amounts.
C33_CreditedOnce ==
    \A u \in Customers : balance[u] + escrowed[u] \in DistinctDeposits

(* ------------------------------- C34 -------------------------------- *)
\* The rows of the users table that hold is_admin.
Admins == {i \in 1 .. Len(users) : users[i].is_admin}

\* C34: in every step no row of the users table changes (is_admin is never
\* granted to a user who has a row and never cleared), a row that is added
\* holds is_admin exactly when no row held it before, and so at most one
\* row ever holds is_admin.
C34_AdminGrantedOnce ==
    [][/\ Len(users') >= Len(users)
       /\ \A i \in 1 .. Len(users) : users'[i] = users[i]
       /\ \A i \in (Len(users) + 1) .. Len(users') :
                users'[i].is_admin <=> ~admin_exists
       /\ Cardinality(Admins') <= 1]_vars

\* Every Telegram user has a row, the first row alone holds is_admin, and
\* every handler has made its call of is_admin.
C34_Witness ==
    /\ Len(users) = MaxTelegramUsers
    /\ Admins = {1}
    /\ inflight = EmptyBag

(* ------------------------------- C35 -------------------------------- *)
\* C35: a valid address handled while the sender's state is the address
\* prompt removes the state and reserves the prompt's amount at most once
\* (at most one request row, escrowed up by the amount or not at all); any
\* other text handled, a second valid address for the same prompt included,
\* changes no account and adds no request.
C35_OneReservationPerPrompt ==
    [][\A u \in PromptUpdates : (Handled(u) /\ u.data = "message") =>
        LET user_id == u.from_user
            state == user_states[user_id]
        IN  IF state.action = "awaiting_withdrawal_address" /\ valid_address(TextOf(u))
            THEN /\ user_states'[user_id] = NoState
                 /\ \/ UNCHANGED <<balance, escrowed, withdrawals>>
                    \/ /\ withdrawals' = Append(withdrawals,
                            [user_id |-> user_id, amount |-> state.amount,
                             status |-> "pending"])
                       /\ escrowed' = [escrowed EXCEPT ![user_id] = @ + state.amount]
                       /\ balance' = [balance EXCEPT ![user_id] = @ - state.amount]
            ELSE UNCHANGED <<balance, escrowed, deals, withdrawals, transactions>>]_vars

\* The first address for a prompt has reserved its amount, and a second
\* valid address, sent while the prompt was open, waits on the loop with
\* the balance and the table able to take another reservation.
C35_Witness ==
    \E u \in PromptUpdates :
        /\ u.data = "message" /\ valid_address(TextOf(u)) /\ InFlight(u)
        /\ user_states[u.from_user] = NoState
        /\ Len(withdrawals) = 1
        /\ withdrawals[1].user_id = u.from_user
        /\ balance[u.from_user] >= withdrawals[1].amount

(* ------------------------------- C36 -------------------------------- *)
\* C36: when the callback of either entry point, Review Case or Resolve
\* Next Dispute, is handled for a deal that is disputed, the resolution
\* menu of that deal is on the admin's screen afterwards.
C36_EntryOpensMenu ==
    [][\A u \in EntryUpdates :
        (/\ BagIn(u, inflight)
         /\ CopiesIn(u, inflight') < CopiesIn(u, inflight)
         /\ DealExists(u.a) /\ deals[u.a].status = "disputed") =>
            BagIn(ResolutionMenu(u.a), inflight')]_vars

(* ------------------------------- C37 -------------------------------- *)
\* The guard the handler of update u reads: role, status and, for an
\* acceptance, the buyer's balance; admin and disputed for a resolution;
\* admin and no deposit row of the account and amount for an approval.
GuardHolds(u) ==
    LET deal == deals[u.a]
        role_and_status(user_id, status) ==
            DealExists(u.a) /\ user_id = u.from_user /\ deal.status = status
    IN
    CASE u.data = "accept_deal" ->
            /\ role_and_status(deal.seller_id, "pending")
            /\ balance[deal.buyer_id] >= deal.amount + calculate_fee(deal.amount)
      [] u.data = "decline_deal" -> role_and_status(deal.seller_id, "pending")
      [] u.data = "deliver_deal" -> role_and_status(deal.seller_id, "funded")
      [] u.data \in {"release_payment", "dispute_deal"} ->
            role_and_status(deal.buyer_id, "delivered")
      [] u.data \in ResolveButtons ->
            is_admin(u.from_user) /\ DealExists(u.a) /\ deal.status = "disputed"
      [] u.data = "admin_approve_deposit" ->
            /\ is_admin(u.from_user)
            /\ \A t \in RowsOfType("deposit") : ~(t.user_id = u.a /\ t.amount = u.b)

====
